---- MODULE Spec2Model ----
(***************************************************************************)
(* A model of the maker-order trading engine (src/trading_bot.py), of the  *)
(* Backpack gateway it drives (src/exchanges/backpack.py), of the Paradex  *)
(* placement loop (src/exchanges/paradex.py) and of the status log of the  *)
(* single-venue engine (src/runbot.py).                                    *)
(*                                                                         *)
(* Prices are integers in price units.  Sizes are integers in size units.  *)
(* None stands for Python's None.                                          *)
(***************************************************************************)
EXTENDS Integers, Sequences, FiniteSets, TLC

VARIABLES
    pricing,    \* one call of the pricing code of place_open_order / place_close_order
    cancel,     \* one call of BackpackClient.cancel_order
    place,      \* one call of place_open_order's retry loop (Backpack, Paradex)
    status,     \* one pass of run through the status log and the gate after it
    call,       \* one call of a function followed on its own
    config,     \* the TradingConfig of the engine
    bot,        \* the fields of the TradingBot
    run,        \* TradingBot.run: where it stands, and its locals
    account,    \* the account at the venue: position, orders, notifications
    hist,       \* what happened in the current cycle and attempt
    attempts    \* the attempts made so far

vars == <<pricing, cancel, place, status, call, config, bot, run, account, hist, attempts>>

\* The variables of the specifications of single calls.
callVars == <<pricing, cancel, place, status, call>>

engineVars == <<config, bot, run, account, hist, attempts>>

\* Python's None, and the marker of a call that raised: outside every value range.
None == 0 - 1

Raised == 0 - 2

\* No call followed.
CallIdle == [pc |-> "idle"]

Abs(x) == IF x < 0 THEN -x ELSE x

Min(a, b) == IF a <= b THEN a ELSE b

(***************************************************************************)
(* Pricing                                                                 *)
(***************************************************************************)

\* Largest price of the pricing inputs.
MaxPrice == 9

\* Tick sizes of the pricing inputs: even, so that half a tick is a whole
\* number of price units.
TickSizes == {2, 4}

Sides == {"buy", "sell"}

\* Rounding to the nearest multiple of the tick, a half rounding up.
round_to_tick(price, tick) == ((2 * price + tick) \div (2 * tick)) * tick

\* The offset from the touch: half a tick when maker_aggressive, else a tick.
maker_offset(tick, aggressive) == IF aggressive THEN tick \div 2 ELSE tick

\* order_price of place_open_order, before rounding.
open_order_price(best_bid, best_ask, tick, aggressive, direction) ==
    IF direction = "buy"
    THEN best_ask - maker_offset(tick, aggressive)
    ELSE best_bid + maker_offset(tick, aggressive)

\* adjusted_price of place_close_order, before rounding.
close_adjusted_price(price, best_bid, best_ask, tick, aggressive, side) ==
    IF side = "sell" /\ price <= best_bid
    THEN best_bid + maker_offset(tick, aggressive)
    ELSE IF side = "buy" /\ price >= best_ask
         THEN best_ask - maker_offset(tick, aggressive)
         ELSE price

\* The price place_open_order hands to execute_order; None when the book is
\* refused.
open_submitted_price(best_bid, best_ask, tick, aggressive, direction) ==
    IF best_bid <= 0 \/ best_ask <= 0
    THEN None
    ELSE round_to_tick(
             open_order_price(best_bid, best_ask, tick, aggressive, direction),
             tick)

\* The price place_close_order hands to execute_order; None when the book is
\* refused.
close_submitted_price(price, best_bid, best_ask, tick, aggressive, side) ==
    IF best_bid <= 0 \/ best_ask <= 0
    THEN None
    ELSE round_to_tick(
             close_adjusted_price(price, best_bid, best_ask, tick, aggressive, side),
             tick)

PricingIdle ==
    [pc |-> "idle", bid |-> 0, ask |-> 0, tick |-> 2, aggressive |-> FALSE,
     side |-> "buy", target |-> 0, submitted |-> None]

\* The calls followed: the book lies on the tick grid of the venue, the
\* target price of a close order need not.
PricingInputs ==
    {p \in [pc : {"input"}, bid : 0..MaxPrice, ask : 0..MaxPrice, tick : TickSizes,
            aggressive : BOOLEAN, side : Sides, target : 0..MaxPrice,
            submitted : {None}] :
        p.bid % p.tick = 0 /\ p.ask % p.tick = 0}

PricingOpen ==
    /\ pricing.pc = "input"
    /\ pricing' = [pricing EXCEPT
           !.pc = "open",
           !.submitted = open_submitted_price(pricing.bid, pricing.ask,
                             pricing.tick, pricing.aggressive, pricing.side)]
    /\ UNCHANGED <<cancel, place, status, call, engineVars>>

PricingClose ==
    /\ pricing.pc = "input"
    /\ pricing' = [pricing EXCEPT
           !.pc = "close",
           !.submitted = close_submitted_price(pricing.target, pricing.bid,
                             pricing.ask, pricing.tick, pricing.aggressive,
                             pricing.side)]
    /\ UNCHANGED <<cancel, place, status, call, engineVars>>

\* EdgeXClient.place_open_order: one full tick from the touch, whatever
\* maker_aggressive says.
EdgeXPricingOpen ==
    /\ pricing.pc = "input"
    /\ pricing' = [pricing EXCEPT
           !.pc = "edgex_open",
           !.submitted =
               IF pricing.bid <= 0 \/ pricing.ask <= 0
               THEN None
               ELSE round_to_tick(
                        IF pricing.side = "buy"
                        THEN pricing.ask - pricing.tick
                        ELSE pricing.bid + pricing.tick,
                        pricing.tick)]
    /\ UNCHANGED <<cancel, place, status, call, engineVars>>

(***************************************************************************)
(* BackpackClient.cancel_order                                             *)
(***************************************************************************)

\* config.quantity, in size units.
Quantity == 2

\* Largest position magnitude the venue reports.
MaxPos == 3

\* The OrderResults of cancel_order: the fields it does not pass keep the
\* default of the dataclass, None; error_message says whether one is passed.
Fail ==
    [success |-> FALSE, order_id |-> None, side |-> None, size |-> None,
     price |-> None, status |-> None, error_message |-> TRUE,
     filled_size |-> None]

Ok(filled) ==
    [success |-> TRUE, order_id |-> None, side |-> None, size |-> None,
     price |-> None, status |-> None, error_message |-> FALSE,
     filled_size |-> filled]

\* No call was made yet.
NoResult ==
    [success |-> FALSE, order_id |-> None, side |-> None, size |-> None,
     price |-> None, status |-> None, error_message |-> FALSE,
     filled_size |-> None]

\* What account_client.cancel_order answers: it raises, answers nothing,
\* answers an error (a 'code', with or without 'Order not found' in its
\* message) or answers the cancelled order; executed is executedQuantity,
\* None when the answer carries none.
CancelResponses ==
    [kind : {"raise", "empty"}, not_found : {FALSE}, executed : {None}]
    \cup [kind : {"code"}, not_found : BOOLEAN, executed : {None} \cup (0..Quantity)]
    \cup [kind : {"ok"}, not_found : {FALSE}, executed : {None} \cup (0..Quantity)]

\* What get_order_info answers: it raises, finds nothing, or reports filled_size.
InfoAnswers == {Raised, None} \cup (0..Quantity)

\* What get_account_positions answers: it raises or reports the magnitude.
PositionAnswers == {Raised} \cup (0..MaxPos)

\* Whether cancel_order reaches its get_order_info query.
cancel_queries_info(resp) == resp.kind = "code" /\ resp.not_found

\* The 'Order not found' branch with the position heuristic alone.
cancel_not_found_position_only(info, pos, quantity) ==
    IF pos = Raised THEN Fail ELSE Ok(Min(quantity, pos))

\* The 'Order not found' branch: order info first, position heuristic second.
cancel_not_found(info, pos, quantity) ==
    IF info = Raised THEN Fail
    ELSE IF info # None THEN Ok(info)
    ELSE IF pos = Raised THEN Fail
    ELSE Ok(Min(quantity, pos))

\* The OrderResult of cancel_order.
cancel_order(resp, info, pos, quantity) ==
    CASE resp.kind = "raise" -> Fail
      [] resp.kind = "empty" -> Fail
      [] resp.kind = "code" ->
            IF resp.not_found
            THEN cancel_not_found(info, pos, quantity)
            ELSE IF resp.executed # None THEN Ok(resp.executed) ELSE Ok(0)
      [] OTHER -> IF resp.executed # None THEN Ok(resp.executed) ELSE Ok(0)

CancelIdle ==
    [pc |-> "idle", resp |-> [kind |-> "empty", not_found |-> FALSE, executed |-> None],
     info |-> None, pos |-> 0, queried |-> FALSE, result |-> NoResult]

CancelInputs ==
    [pc : {"input"}, resp : CancelResponses, info : InfoAnswers,
     pos : PositionAnswers, queried : {FALSE}, result : {NoResult}]

CancelOrderCall ==
    /\ cancel.pc = "input"
    /\ cancel' = [cancel EXCEPT
           !.pc = "done",
           !.queried = cancel_queries_info(cancel.resp),
           !.result = cancel_order(cancel.resp, cancel.info, cancel.pos, Quantity)]
    /\ UNCHANGED <<pricing, place, status, call, engineVars>>

(***************************************************************************)
(* place_open_order: the retry loop of BackpackClient and of ParadexClient *)
(***************************************************************************)

\* max_retries of BackpackClient.place_open_order.
max_retries == 15

\* The loop rounds the model follows a venue through.
MaxPlaceAttempts == 17

\* What fetch_bbo_prices answers: (0, 0) when the query failed.
PlaceBooks == {<<0, 0>>, <<4, 6>>, <<6, 8>>}

PlaceTick == 2

Venues == {"backpack", "paradex"}

\* The while condition of the loop.
backpack_loop_guard(retry_count) == retry_count < max_retries

paradex_loop_guard(attempt) == TRUE

place_loop_guard(venue, count) ==
    IF venue = "backpack" THEN backpack_loop_guard(count) ELSE paradex_loop_guard(count)

\* What the venue answers to the post-only order of one round.
BackpackAnswers == {"empty", "rejected", "margin", "no_id", "accepted"}

ParadexAnswers == {"would_cross", "closed_filled", "closed_other", "open", "other"}

\* The results of a placement call: "none" while it runs, "ok" for
\* success=True, "raise" for an exception that leaves the call, and else the
\* error_message of a success=False result.
PlaceFailures ==
    {"Invalid bid/ask prices", "Max retries exceeded", "Failed to place order",
     "No order ID in response", "failed after acceptance"}

PlaceIdle ==
    [pc |-> "idle", venue |-> "backpack", direction |-> "buy", aggressive |-> FALSE,
     attempt |-> 0, placements |-> 0, bid |-> 0, ask |-> 0, price |-> None,
     repriced |-> 0, result |-> "none"]

PlaceInputs ==
    [pc : {"loop"}, venue : Venues, direction : Sides, aggressive : BOOLEAN,
     attempt : {0}, placements : {0}, bid : {0}, ask : {0}, price : {None},
     repriced : {0}, result : {"none"}]

\* Backpack, top of a round: count it, fetch the book, refuse a book
\* without prices, else price the order from this book.
BackpackRound ==
    /\ place.pc = "loop" /\ place.venue = "backpack"
    /\ place_loop_guard(place.venue, place.attempt)
    /\ \E book \in PlaceBooks :
          place' = IF book[1] <= 0 \/ book[2] <= 0
                   THEN [place EXCEPT !.attempt = @ + 1, !.bid = book[1],
                            !.ask = book[2], !.pc = "done",
                            !.result = "Invalid bid/ask prices"]
                   ELSE [place EXCEPT !.attempt = @ + 1, !.bid = book[1],
                            !.ask = book[2], !.pc = "submit", !.repriced = @ + 1,
                            !.price = open_submitted_price(book[1], book[2],
                                PlaceTick, place.aggressive, place.direction)]
    /\ UNCHANGED <<pricing, cancel, status, call, engineVars>>

\* Backpack, the loop condition fails: 'Max retries exceeded'.
BackpackExhausted ==
    /\ place.pc = "loop" /\ place.venue = "backpack"
    /\ ~place_loop_guard(place.venue, place.attempt)
    /\ place' = [place EXCEPT !.pc = "done", !.result = "Max retries exceeded"]
    /\ UNCHANGED <<pricing, cancel, status, call, engineVars>>

\* Backpack, execute_order and what follows its answer.  An error answer
\* ('code') goes back to the loop; 'Insufficient margin' returns what
\* place_close_order returned; an accepted order returns after the fill
\* polling, which succeeds or fails.
BackpackSubmit ==
    /\ place.pc = "submit" /\ place.venue = "backpack"
    /\ \E answer \in BackpackAnswers, ok \in BOOLEAN :
          place' = CASE answer = "rejected" ->
                          [place EXCEPT !.placements = @ + 1, !.pc = "loop"]
                     [] answer = "empty" ->
                          [place EXCEPT !.placements = @ + 1, !.pc = "done",
                              !.result = "Failed to place order"]
                     [] answer = "no_id" ->
                          [place EXCEPT !.placements = @ + 1, !.pc = "done",
                              !.result = "No order ID in response"]
                     [] OTHER ->
                          [place EXCEPT !.placements = @ + 1, !.pc = "done",
                              !.result = IF ok THEN "ok" ELSE "failed after acceptance"]
    /\ UNCHANGED <<pricing, cancel, status, call, engineVars>>

\* Paradex, top of a round: count it, on every fifth round raise when more
\* than one open order is active, fetch the book and price the order.
ParadexRound ==
    /\ place.pc = "loop" /\ place.venue = "paradex"
    /\ place_loop_guard(place.venue, place.attempt)
    /\ place.attempt < MaxPlaceAttempts
    /\ \E book \in PlaceBooks, abnormal \in BOOLEAN :
          place' = IF (place.attempt + 1) % 5 = 0 /\ abnormal
                   THEN [place EXCEPT !.attempt = @ + 1, !.pc = "done",
                            !.result = "raise"]
                   ELSE [place EXCEPT !.attempt = @ + 1, !.bid = book[1],
                            !.ask = book[2], !.pc = "submit", !.repriced = @ + 1,
                            !.price = round_to_tick(
                                open_order_price(book[1], book[2], PlaceTick,
                                                 FALSE, place.direction),
                                PlaceTick)]
    /\ UNCHANGED <<pricing, cancel, status, call, engineVars>>

\* Paradex, place_post_only_order and what follows its answer.
ParadexSubmit ==
    /\ place.pc = "submit" /\ place.venue = "paradex"
    /\ \E answer \in ParadexAnswers :
          place' = CASE answer = "would_cross" ->
                          [place EXCEPT !.placements = @ + 1, !.pc = "loop"]
                     [] answer = "open" ->
                          [place EXCEPT !.placements = @ + 1, !.pc = "done",
                              !.result = "ok"]
                     [] OTHER ->
                          [place EXCEPT !.placements = @ + 1, !.pc = "done",
                              !.result = "raise"]
    /\ UNCHANGED <<pricing, cancel, status, call, engineVars>>

(***************************************************************************)
(* The trading engine: TradingBot.run over the Backpack gateway            *)
(*                                                                         *)
(* One action is the code between two awaits that let the venue move.  A   *)
(* query of the venue answers what the venue holds, or its default when    *)
(* the query failed.  fetch_bbo_prices answers one of Books.  Of the       *)
(* notifications of the order stream only the FILLED ones of opening       *)
(* orders are followed: the others write current_order_status,             *)
(* order_filled_amount and order_canceled_event, which the Backpack path   *)
(* of the engine overwrites before it reads them or never reads.           *)
(***************************************************************************)

\* config.tick_size, config.take_profit (percent), config.grid_step
\* (percent), config.max_orders.
TickSize == 200

TakeProfit == 1

GridStep == 1

MaxOrders == 2

\* Thresholds of TradingConfig, in hundredths of a percent.
stop_loss_threshold == 8

take_profit_threshold == 12

global_stop_loss_percent == 500

global_take_profit_percent == 1000

\* The -1 of config.stop_price and config.pause_price: no such price.
Unset == 0 - 1

\* What fetch_bbo_prices answers: <<bid, ask>>, <<0, 0>> when the query failed.
Books == {<<0, 0>>, <<10000, 10200>>, <<11200, 11400>>}

\* The books of a venue that trades.
LiveBooks == {b \in Books : b[1] > 0 /\ b[2] > 0}

\* Close orders the venue holds at most.
MaxClose == 1

\* FILLED notifications the order stream holds at most; one more is lost.
MaxPending == 1

\* The configurations followed: both directions and both maker prices, one
\* with a stop price and one with a pause price that the higher book reaches.
Configs ==
    {[direction |-> "buy", maker_aggressive |-> TRUE,
      stop_price |-> Unset, pause_price |-> Unset],
     [direction |-> "buy", maker_aggressive |-> FALSE,
      stop_price |-> 11400, pause_price |-> Unset],
     [direction |-> "sell", maker_aggressive |-> TRUE,
      stop_price |-> Unset, pause_price |-> 10000],
     [direction |-> "sell", maker_aggressive |-> FALSE,
      stop_price |-> Unset, pause_price |-> Unset]}

\* TradingConfig.close_order_side.
close_order_side(direction) == IF direction = "sell" THEN "buy" ELSE "sell"

\* An OrderResult as the engine reads it: success, status, price.  The
\* error_message of a failure is only logged.
OrderFailed == [success |-> FALSE, status |-> "none", price |-> None]

OrderPlaced(order_status, price) ==
    [success |-> TRUE, status |-> order_status, price |-> price]

NoOrderResult == OrderFailed

\* No call of place_close_order is under way.  success is that of the
\* close_order_result _handle_order_result holds once the call returned.
NoCloseCall == [quantity |-> 0, price |-> 0, caller |-> "none", success |-> FALSE]

\* TradingBot.__init__.
BotInit ==
    [shutdown_requested |-> FALSE,
     last_filled_price |-> None,
     last_close_orders |-> 0,
     last_open_order_time |-> 0,
     order_filled_event |-> FALSE,
     set_scheduled |-> FALSE]

\* run before its loop: pc is where it stands; position_amt, order_result,
\* order_price and filled are the locals of run and of the gateway call
\* under way; close_call is the place_close_order under way.
\* active_close_orders, a field every cycle rebuilds before it reads it, and
\* order_filled_amount, a field every attempt resets and reads only after
\* its own write, are kept with the locals.
RunInit ==
    [pc |-> "top", position_amt |-> 0, active_close_orders |-> <<>>,
     order_filled_amount |-> 0, order_result |-> NoOrderResult, order_price |-> 0, filled |-> 0,
     close_call |-> NoCloseCall]

\* The opening order of the current attempt at the venue.
NoOpenOrder == [live |-> FALSE, filled |-> 0, price |-> 0]

\* The account: position is the net quantity, positive in config.direction;
\* close_orders are the resting orders of the closing side, current marks
\* the one place_close_order is polling; notifications are the prices of
\* the FILLED notifications of opening orders not yet handled; abandoned
\* says that an opening order of an earlier attempt still rests at the
\* venue, where the engine follows it no further.
AccountInit(position) ==
    [position |-> position, open_order |-> NoOpenOrder, close_orders |-> <<>>,
     notifications |-> {}, abandoned |-> FALSE]

\* What the claims ask of the past.  clearing: "none" while the cycle has
\* not re-read the position after a clearing, else whether that re-read
\* found "zero" or "nonzero".  fill_price: the price the opening order of
\* the attempt filled at, None while it has not.  filled_at_cancel: the fill
\* of the opening order when _handle_order_result sent its cancel, None
\* when it sent none.  close_placed: the close orders the venue accepted in
\* the attempt.  cooldown: between _calculate_wait_time answering 0 and the
\* grid-step gate, whether the cool-down time had passed since
\* last_open_order_time ("elapsed", also when there is no such time) or not
\* ("running").  book: what fetch_bbo_prices answered
\* _check_price_condition, until the cycle ends or goes on to
\* _calculate_wait_time.  sltp_books: the books fetch_bbo_prices answered
\* the SL/TP checks of the cycle; sltp_notified: a notification was handled
\* after the cycle read the position and before its global check;
\* sltp_global: the global check took its branch.  The three are kept up to
\* the global check, and past it when it took its branch.
HistInit ==
    [clearing |-> "none", fill_price |-> None, filled_at_cancel |-> None,
     close_placed |-> 0, cooldown |-> "none", book |-> <<>>,
     sltp_books |-> {}, sltp_notified |-> FALSE, sltp_global |-> FALSE]

\* Attempts the engine is followed through.
MaxAttempts == 2

\* The engine at rest, for the specifications of the gateway calls.
EngineIdle ==
    /\ config = [direction |-> "buy", maker_aggressive |-> TRUE,
                 stop_price |-> Unset, pause_price |-> Unset]
    /\ bot = BotInit
    /\ run = [RunInit EXCEPT !.pc = "idle"]
    /\ account = AccountInit(0)
    /\ hist = HistInit
    /\ attempts = 0

(***************************************************************************)
(* The venue                                                               *)
(***************************************************************************)

\* get_account_positions: the magnitude of the net quantity.
PositionReads == {Abs(account.position)}

\* The net quantity the account may hold against config.direction.
MaxShort == 1

\* Time passes where run sleeps, polls or waits: there the venue fills
\* resting orders.
TimePasses ==
    run.pc \in {"top", "open_poll", "wait_fill", "close_poll"}

\* A market order of the closing side for quantity, filled when ok.
MarketClose(v, quantity, ok) ==
    IF ok THEN [v EXCEPT !.position = @ - quantity] ELSE v

\* The sequence s without its i-th element.
RemoveAt(s, i) ==
    IF Len(s) <= 1 THEN <<>>
    ELSE [j \in 1..(Len(s) - 1) |-> IF j < i THEN s[j] ELSE s[j + 1]]

\* The index of the close order place_close_order is polling, 0 when it rests
\* no more.
CurrentClose(v) ==
    IF \E i \in 1..Len(v.close_orders) : v.close_orders[i].current
    THEN CHOOSE i \in 1..Len(v.close_orders) : v.close_orders[i].current
    ELSE 0

\* The close orders without the mark of the polled one.
Unmarked(orders) ==
    IF Len(orders) = 0 THEN <<>>
    ELSE [i \in 1..Len(orders) |-> [orders[i] EXCEPT !.current = FALSE]]

\* get_active_orders, filtered to the closing side: price and size of the
\* orders that rest.
ActiveCloseOrders(v) ==
    LET resting == SelectSeq(v.close_orders, LAMBDA o : o.filled < o.size)
    IN  IF Len(resting) = 0 THEN <<>>
        ELSE [i \in 1..Len(resting) |->
                 [price |-> resting[i].price, size |-> resting[i].size]]

(***************************************************************************)
(* TradingBot.run: the checks of a cycle                                   *)
(***************************************************************************)

\* 2 * entry * profit, profit being the fraction run computes from the mid
\* price of the book.
signed_profit(entry, book, direction) ==
    IF direction = "buy"
    THEN book[1] + book[2] - 2 * entry
    ELSE 2 * entry - book[1] - book[2]

\* profit <= -threshold, threshold in hundredths of a percent, entry > 0.
loss_reached(entry, book, direction, threshold) ==
    signed_profit(entry, book, direction) * 10000 <= 0 - threshold * 2 * entry

\* profit >= threshold.
profit_reached(entry, book, direction, threshold) ==
    signed_profit(entry, book, direction) * 10000 >= threshold * 2 * entry

\* A loop that does not ask for shutdown_requested.
run_loop_guard_forever(shutdown_requested) == TRUE

\* The condition of the main loop.
run_loop_guard(shutdown_requested) == ~shutdown_requested

\* _log_status_periodically: it returns nothing, which run reads as no
\* mismatch.
log_status_periodically(position_amt, active_close_orders) == FALSE

\* A market order of the closing side that fills keeps the net quantity
\* within the account's limit.
WithinLimit(quantity, ok) == ok => account.position - quantity >= 0 - MaxShort

\* while not self.shutdown_requested: read the position.
RunLoopTop ==
    /\ run.pc = "top"
    /\ run_loop_guard(bot.shutdown_requested)
    /\ \E p \in PositionReads :
          run' = [run EXCEPT !.position_amt = p,
                     !.pc = IF p > 0 THEN "first_sltp" ELSE "active_orders"]
    /\ UNCHANGED <<config, bot, account, hist, attempts, callVars>>

\* The loop ends: finally, disconnect.
RunLoopExit ==
    /\ run.pc = "top"
    /\ ~run_loop_guard(bot.shutdown_requested)
    /\ run' = [run EXCEPT !.pc = "stopped"]
    /\ UNCHANGED <<config, bot, account, hist, attempts, callVars>>

\* A first check that forgets last_filled_price only when its market close
\* succeeded, as the second check does.
FirstSlTpCheckReadsResult ==
    /\ run.pc = "first_sltp"
    /\ \E book \in Books, ok \in BOOLEAN :
          LET entry == bot.last_filled_price
              hit == /\ entry # None /\ entry > 0
                     /\ book[1] > 0 /\ book[2] > 0
                     /\ \/ loss_reached(entry, book, config.direction, stop_loss_threshold)
                        \/ profit_reached(entry, book, config.direction, take_profit_threshold)
          IN  /\ WithinLimit(run.position_amt, ok)
              /\ IF hit
                 THEN /\ account' = MarketClose(account, run.position_amt, ok)
                      /\ bot' = IF ok THEN [bot EXCEPT !.last_filled_price = None] ELSE bot
                      /\ run' = [run EXCEPT !.pc = IF ok THEN "first_sltp_reread" ELSE "clear"]
                 ELSE /\ UNCHANGED <<account, bot>>
                      /\ run' = [run EXCEPT !.pc = "clear"]
              /\ hist' = [hist EXCEPT !.sltp_books =
                     IF entry # None /\ entry > 0 THEN @ \cup {book} ELSE @]
    /\ UNCHANGED <<config, attempts, callVars>>

\* The first SL/TP check, before the clearing: a market close whose result
\* is not read, and last_filled_price forgotten.
FirstSlTpCheck ==
    /\ run.pc = "first_sltp"
    /\ \E book \in Books, ok \in BOOLEAN :
          LET entry == bot.last_filled_price
              hit == /\ entry # None /\ entry > 0
                     /\ book[1] > 0 /\ book[2] > 0
                     /\ \/ loss_reached(entry, book, config.direction, stop_loss_threshold)
                        \/ profit_reached(entry, book, config.direction, take_profit_threshold)
          IN  /\ WithinLimit(run.position_amt, ok)
              /\ IF hit
                 THEN /\ account' = MarketClose(account, run.position_amt, ok)
                      /\ bot' = [bot EXCEPT !.last_filled_price = None]
                      /\ run' = [run EXCEPT !.pc = "first_sltp_reread"]
                 ELSE /\ UNCHANGED <<account, bot>>
                      /\ run' = [run EXCEPT !.pc = "clear"]
              /\ hist' = [hist EXCEPT !.sltp_books =
                     IF entry # None /\ entry > 0 THEN @ \cup {book} ELSE @]
    /\ UNCHANGED <<config, attempts, callVars>>

\* After the sleep of the first check: position_amt read again.
FirstSlTpReread ==
    /\ run.pc = "first_sltp_reread"
    /\ \E p \in PositionReads :
          run' = [run EXCEPT !.position_amt = p, !.pc = "clear"]
    /\ UNCHANGED <<config, bot, account, hist, attempts, callVars>>

\* _clear_existing_position: its own read of the position, and a market
\* order of the closing side for all of it.
ClearExistingPosition ==
    /\ run.pc = "clear"
    /\ \E p \in PositionReads, ok \in BOOLEAN :
          /\ WithinLimit(p, ok)
          /\ account' = IF p > 0 THEN MarketClose(account, p, ok) ELSE account
    /\ run' = [run EXCEPT !.pc = "recheck"]
    /\ UNCHANGED <<config, bot, hist, attempts, callVars>>

\* Recheck position after clearing: a warning when it is still there.
RecheckPosition ==
    /\ run.pc = "recheck"
    /\ \E p \in PositionReads :
          /\ run' = [run EXCEPT !.position_amt = p, !.pc = "active_orders"]
          /\ hist' = [hist EXCEPT !.clearing = IF p = 0 THEN "zero" ELSE "nonzero"]
    /\ UNCHANGED <<config, bot, account, attempts, callVars>>

\* get_active_orders, filtered into active_close_orders.
GetActiveOrders ==
    /\ run.pc = "active_orders"
    /\ run' = [run EXCEPT !.active_close_orders = ActiveCloseOrders(account),
                   !.pc = "second_sltp"]
    /\ UNCHANGED <<config, bot, account, hist, attempts, callVars>>

\* The second SL/TP check: the book is not validated; last_filled_price is
\* forgotten when the market close succeeded.
SecondSlTpCheck ==
    /\ run.pc = "second_sltp"
    /\ \E book \in Books, ok \in BOOLEAN :
          LET entry == bot.last_filled_price
              hit == /\ run.position_amt > 0
                     /\ entry # None /\ entry > 0
                     /\ \/ loss_reached(entry, book, config.direction, stop_loss_threshold)
                        \/ profit_reached(entry, book, config.direction, take_profit_threshold)
          IN  /\ WithinLimit(run.position_amt, ok)
              /\ IF hit
                 THEN /\ account' = MarketClose(account, run.position_amt, ok)
                      /\ bot' = IF ok THEN [bot EXCEPT !.last_filled_price = None] ELSE bot
                      /\ run' = [run EXCEPT
                             !.pc = IF ok THEN "second_sltp_reread" ELSE "global_sltp"]
                 ELSE /\ UNCHANGED <<account, bot>>
                      /\ run' = [run EXCEPT !.pc = "global_sltp"]
              /\ hist' = [hist EXCEPT !.sltp_books =
                     IF run.position_amt > 0 /\ entry # None
                     THEN @ \cup {book} ELSE @]
    /\ UNCHANGED <<config, attempts, callVars>>

SecondSlTpReread ==
    /\ run.pc = "second_sltp_reread"
    /\ \E p \in PositionReads :
          run' = [run EXCEPT !.position_amt = p, !.pc = "global_sltp"]
    /\ UNCHANGED <<config, bot, account, hist, attempts, callVars>>

\* The global SL/TP check: a market close, shutdown_requested, continue.  An
\* entry price of 0 raises in the division, which the check catches.
GlobalSlTpCheck ==
    /\ run.pc = "global_sltp"
    /\ \E book \in Books, ok \in BOOLEAN :
          LET entry == bot.last_filled_price
              hit == /\ run.position_amt > 0
                     /\ entry # None /\ entry > 0
                     /\ book[1] > 0 /\ book[2] > 0
                     /\ \/ loss_reached(entry, book, config.direction,
                                        global_stop_loss_percent)
                        \/ profit_reached(entry, book, config.direction,
                                          global_take_profit_percent)
          IN  /\ WithinLimit(run.position_amt, ok)
              /\ IF hit
                 THEN /\ account' = MarketClose(account, run.position_amt, ok)
                      /\ bot' = [bot EXCEPT !.shutdown_requested = TRUE]
                      /\ run' = [run EXCEPT !.pc = "cycle_end"]
                      /\ hist' = [hist EXCEPT !.sltp_books = @ \cup {book},
                                              !.sltp_global = TRUE]
                 ELSE /\ UNCHANGED <<account, bot>>
                      /\ run' = [run EXCEPT !.pc = "price_condition"]
                      /\ hist' = [hist EXCEPT !.sltp_books = {},
                                              !.sltp_notified = FALSE]
    /\ UNCHANGED <<config, attempts, callVars>>

(***************************************************************************)
(* TradingBot.run: the gates before an attempt                             *)
(***************************************************************************)

\* The books _check_price_condition and _meet_grid_step_condition refuse.
no_bid_ask(book) == book[1] <= 0 \/ book[2] <= 0 \/ book[1] >= book[2]

\* _check_price_condition, for a price of the configuration that is set.
price_reached(book, direction, price) ==
    /\ price # Unset
    /\ IF direction = "buy" THEN book[2] >= price ELSE book[1] <= price

\* _calculate_wait_time: the wait, and the fields it writes.  n is
\* len(active_close_orders); elapsed says that more than the cool-down time
\* passed since last_open_order_time, which is 0 or a time of the clock.
calculate_wait_time(n, last_close_orders, last_open_order_time, elapsed) ==
    IF n < last_close_orders
    THEN [wait |-> 0, last_close_orders |-> n,
          last_open_order_time |-> last_open_order_time]
    ELSE IF n >= MaxOrders
    THEN [wait |-> 1, last_close_orders |-> n,
          last_open_order_time |-> last_open_order_time]
    ELSE IF last_open_order_time = 0 /\ n > 0
    THEN [wait |-> 1, last_close_orders |-> n, last_open_order_time |-> 1]
    ELSE IF last_open_order_time = 0 \/ elapsed
    THEN [wait |-> 0, last_close_orders |-> n,
          last_open_order_time |-> last_open_order_time]
    ELSE [wait |-> 1, last_close_orders |-> n,
          last_open_order_time |-> last_open_order_time]

\* The lowest close price, whatever the direction.
next_close_price_lowest(orders, direction) ==
    LET prices == {orders[i].price : i \in 1..Len(orders)}
    IN  CHOOSE p \in prices : \A q \in prices : p <= q

\* The price of the close order nearest to the market.
next_close_price(orders, direction) ==
    LET prices == {orders[i].price : i \in 1..Len(orders)}
    IN  IF direction = "buy"
        THEN CHOOSE p \in prices : \A q \in prices : p <= q
        ELSE CHOOSE p \in prices : \A q \in prices : p >= q

\* The gate with the ratio of the sell side taken the other way round.
meet_grid_step_condition_inverted(orders, book, direction) ==
    IF Len(orders) = 0 THEN TRUE
    ELSE IF direction = "buy"
    THEN next_close_price(orders, direction) * 100 * 100
            > book[2] * (100 + TakeProfit) * (100 + GridStep)
    ELSE next_close_price(orders, direction) * 100 * 100
            > book[1] * (100 - TakeProfit) * (100 + GridStep)

\* _meet_grid_step_condition, for a book it accepts: the close price of a
\* new order is more than grid_step percent inside the nearest close order.
meet_grid_step_condition(orders, book, direction) ==
    IF Len(orders) = 0 THEN TRUE
    ELSE IF direction = "buy"
    THEN next_close_price(orders, direction) * 100 * 100
            > book[2] * (100 + TakeProfit) * (100 + GridStep)
    ELSE book[1] * (100 - TakeProfit) * 100
            > next_close_price(orders, direction) * 100 * (100 + GridStep)

\* _log_status_periodically and _check_price_condition: stop, pause, or go
\* on; a refused book raises out of run, which shuts down on its way out.
CheckPriceCondition ==
    /\ run.pc = "price_condition"
    /\ IF config.pause_price = Unset /\ config.stop_price = Unset
       THEN /\ run' = [run EXCEPT !.pc = "wait_time"]
            /\ UNCHANGED <<bot, hist>>
       ELSE \E book \in Books :
               /\ hist' = [hist EXCEPT !.book = book]
               /\ IF no_bid_ask(book)
                  THEN /\ bot' = [bot EXCEPT !.shutdown_requested = TRUE]
                       /\ run' = [run EXCEPT !.pc = "raised"]
                  ELSE IF price_reached(book, config.direction, config.stop_price)
                  THEN /\ bot' = [bot EXCEPT !.shutdown_requested = TRUE]
                       /\ run' = [run EXCEPT !.pc = "cycle_end"]
                  ELSE /\ UNCHANGED bot
                       /\ run' = [run EXCEPT !.pc =
                              IF price_reached(book, config.direction,
                                               config.pause_price)
                              THEN "cycle_end" ELSE "wait_time"]
    /\ UNCHANGED <<config, account, attempts, callVars>>

\* if not mismatch_detected: _calculate_wait_time; a wait ends the cycle.
CalculateWaitTime ==
    /\ run.pc = "wait_time"
    /\ IF log_status_periodically(run.position_amt, run.active_close_orders)
       THEN /\ run' = [run EXCEPT !.pc = "cycle_end"]
            /\ hist' = [hist EXCEPT !.book = <<>>]
            /\ UNCHANGED bot
       ELSE \E elapsed \in BOOLEAN :
               LET r == calculate_wait_time(Len(run.active_close_orders),
                            bot.last_close_orders, bot.last_open_order_time, elapsed)
               IN  /\ bot' = [bot EXCEPT
                          !.last_close_orders = r.last_close_orders,
                          !.last_open_order_time = r.last_open_order_time]
                   /\ run' = [run EXCEPT
                          !.pc = IF r.wait > 0 THEN "cycle_end" ELSE "grid_step"]
                   /\ hist' = [hist EXCEPT
                          !.book = <<>>,
                          !.cooldown =
                              IF r.wait > 0 THEN "none"
                              ELSE IF r.last_open_order_time = 0 \/ elapsed
                              THEN "elapsed" ELSE "running"]
    /\ UNCHANGED <<config, account, attempts, callVars>>

\* _meet_grid_step_condition, and on its success the head of
\* _place_and_monitor_open_order: the event cleared, the filled amount
\* reset.  The locals of the checks are read no more.
MeetGridStepCondition ==
    /\ run.pc = "grid_step"
    /\ attempts < MaxAttempts
    /\ \E book \in Books :
          IF Len(run.active_close_orders) > 0 /\ no_bid_ask(book)
          THEN /\ bot' = [bot EXCEPT !.shutdown_requested = TRUE]
               /\ run' = [run EXCEPT !.pc = "raised"]
          ELSE IF meet_grid_step_condition(run.active_close_orders, book,
                                           config.direction)
          THEN /\ bot' = [bot EXCEPT !.order_filled_event = FALSE]
               /\ run' = [RunInit EXCEPT !.pc = "open_round"]
          ELSE /\ UNCHANGED bot
               /\ run' = [run EXCEPT !.pc = "cycle_end"]
    /\ attempts' = IF run'.pc = "open_round" THEN attempts + 1 ELSE attempts
    /\ hist' = [hist EXCEPT !.cooldown = "none"]
    /\ UNCHANGED <<config, account, callVars>>

(***************************************************************************)
(* _meet_grid_step_condition, called on two books                          *)
(***************************************************************************)

\* The price levels of the books and close orders of the gate: MaxGridLevel
\* ticks up from 9600.
MaxGridLevel == 5

\* Two reads of the book, (0,0) for a failed read, against the same active
\* close orders.
GridInputs ==
    LET GridPrices == {9600 + TickSize * i : i \in 0..MaxGridLevel}
        books == {<<0, 0>>}
                 \cup {b \in GridPrices \X GridPrices : b[1] < b[2]}
        orders == {<<>>}
                  \cup {<<[price |-> p]>> : p \in GridPrices}
                  \cup {<<[price |-> p], [price |-> q]>> :
                           p \in GridPrices, q \in GridPrices}
    IN  [pc : {"grid_input"}, direction : Sides, active_close_orders : orders,
         book : books, other_book : books,
         answer : {"none"}, other_answer : {"none"}]

\* _meet_grid_step_condition on each of the two books: it passes, rejects,
\* or raises on a book it refuses.
MeetGridStepCalls ==
    LET gate(book) ==
            IF Len(call.active_close_orders) > 0 /\ no_bid_ask(book)
            THEN "raise"
            ELSE IF meet_grid_step_condition(call.active_close_orders, book,
                                             call.direction)
                 THEN "pass" ELSE "reject"
    IN  /\ call.pc = "grid_input"
        /\ call' = [call EXCEPT !.pc = "grid_done",
                                !.answer = gate(call.book),
                                !.other_answer = gate(call.other_book)]
        /\ UNCHANGED <<pricing, cancel, place, status, engineVars>>

(***************************************************************************)
(* _calculate_wait_time: the cool-down time of the two engines             *)
(***************************************************************************)

\* max_orders of the configurations followed.
MaxConfigOrders == 7

\* Four times cool_down_time, in seconds, for n active close orders below
\* max_orders: the tiers at 2/3, 1/3 and 1/6 of max_orders, and below them
\* wait_time / 4 in TradingBot and 60 seconds in EdgeXTradingBot.
cool_down_time(engine, n, max_orders, wait_time) ==
    IF n * 3 >= 2 * max_orders THEN 8 * wait_time
    ELSE IF n * 3 >= max_orders THEN 4 * wait_time
    ELSE IF n * 6 >= max_orders THEN 2 * wait_time
    ELSE IF engine = "trading_bot" THEN wait_time
    ELSE 4 * 60

\* _calculate_wait_time called with fewer and with more active close
\* orders under one configuration.
CoolDownTimes ==
    /\ call.pc = "cooldown_input"
    /\ call' = [call EXCEPT
           !.pc = "cooldown_done",
           !.cool_fewer = cool_down_time(call.engine, call.fewer,
                                         call.max_orders, call.wait_time),
           !.cool_more = cool_down_time(call.engine, call.more,
                                        call.max_orders, call.wait_time)]
    /\ UNCHANGED <<pricing, cancel, place, status, engineVars>>

(***************************************************************************)
(* TradingBot.run: the close orders that rest, counted                     *)
(***************************************************************************)

\* Close orders the venue is followed to.
MaxResting == 4

\* get_active_orders at the top of a cycle: active_close_orders is rebuilt
\* from what rests.  A cycle that stops or pauses, or that reports a
\* mismatch, ends before _calculate_wait_time.
BoundGetActiveOrders ==
    /\ call.pc = "cycle"
    /\ \E proceeds \in BOOLEAN :
          call' = [call EXCEPT !.n = call.venue,
                               !.pc = IF proceeds THEN "wait_time" ELSE "cycle"]
    /\ UNCHANGED <<pricing, cancel, place, status, engineVars>>

\* if not mismatch_detected: _calculate_wait_time; a wait ends the cycle.
BoundCalculateWaitTime ==
    /\ call.pc = "wait_time"
    /\ \E elapsed \in BOOLEAN :
          LET r == calculate_wait_time(call.n, call.last_close_orders,
                                       call.last_open_order_time, elapsed)
          IN  call' = [call EXCEPT
                  !.last_close_orders = r.last_close_orders,
                  !.last_open_order_time = r.last_open_order_time,
                  !.pc = IF r.wait > 0 THEN "cycle" ELSE "grid_step"]
    /\ UNCHANGED <<pricing, cancel, place, status, engineVars>>

\* _meet_grid_step_condition: True with no active close order, the book
\* decides otherwise.
BoundMeetGridStep ==
    /\ call.pc = "grid_step"
    /\ \E meets \in (IF call.n = 0 THEN {TRUE} ELSE BOOLEAN) :
          call' = [call EXCEPT !.pc = IF meets THEN "place_open" ELSE "cycle"]
    /\ UNCHANGED <<pricing, cancel, place, status, engineVars>>

\* place_open_order.  It fails, or returns an opening order, or on
\* 'Insufficient margin' places a close order and returns its result: that
\* order rests at the return when it is partly filled, or when the cancel
\* before the market order did not take, whatever the market order did.
BoundPlaceOpenOrder ==
    /\ call.pc = "place_open"
    /\ \E answer \in {"failed", "placed", "margin"}, rests \in BOOLEAN,
          success \in BOOLEAN :
          /\ answer # "margin" => (~rests /\ success = (answer = "placed"))
          /\ rests => call.venue < MaxResting
          /\ call' = [call EXCEPT
                 !.venue = IF rests THEN @ + 1 ELSE @,
                 !.margin_rests = rests,
                 !.pc = IF success THEN "handle" ELSE "attempt_end"]
    /\ UNCHANGED <<pricing, cancel, place, status, engineVars>>

\* _handle_order_result.  The filled branch places a close order; the other
\* branch cancels the order of the result, which is the close order of the
\* margin answer when there is one, and places a close order for what was
\* filled.  A close order placed may rest.
BoundHandleOrderResult ==
    /\ call.pc = "handle"
    /\ \E cancelled \in BOOLEAN, placed \in BOOLEAN, stamped \in BOOLEAN :
          /\ cancelled => call.margin_rests
          /\ placed => stamped
          /\ placed => call.venue - (IF cancelled THEN 1 ELSE 0) < MaxResting
          /\ call' = [call EXCEPT
                 !.venue = @ - (IF cancelled THEN 1 ELSE 0)
                             + (IF placed THEN 1 ELSE 0),
                 !.margin_rests = FALSE,
                 !.last_open_order_time = IF stamped THEN 1 ELSE @,
                 !.pc = "attempt_end"]
    /\ UNCHANGED <<pricing, cancel, place, status, engineVars>>

\* self.last_close_orders += 1 after the attempt.
BoundAttemptEnd ==
    /\ call.pc = "attempt_end"
    /\ call' = [call EXCEPT !.last_close_orders = @ + 1,
                            !.margin_rests = FALSE, !.pc = "cycle"]
    /\ UNCHANGED <<pricing, cancel, place, status, engineVars>>

\* The venue fills a resting close order: the one of the margin answer, or
\* another.
BoundCloseOrderFills ==
    /\ \E margin \in BOOLEAN :
          /\ margin => call.margin_rests
          /\ ~margin => call.venue > (IF call.margin_rests THEN 1 ELSE 0)
          /\ call' = [call EXCEPT
                 !.venue = @ - 1,
                 !.margin_rests = IF margin THEN FALSE ELSE @]
    /\ UNCHANGED <<pricing, cancel, place, status, engineVars>>

(***************************************************************************)
(* BackpackClient.place_open_order, as the engine calls it                 *)
(***************************************************************************)

\* The close price place_open_order chooses after 'Insufficient margin'.
margin_close_price(book, close_side) ==
    IF close_side = "sell"
    THEN round_to_tick(book[1] + TickSize, TickSize)
    ELSE round_to_tick(book[2] - TickSize, TickSize)

\* A close order at the venue: it rests while filled < size; current marks
\* the one the running attempt placed last.
CloseOrder(size, price) ==
    [size |-> size, filled |-> 0, price |-> price, current |-> TRUE]

Resting(order) == order.filled < order.size

\* The close orders once the attempt lets go of its order: no mark, and the
\* filled ones gone.
Settled(orders) == Unmarked(SelectSeq(orders, Resting))

\* The notifications with one more, of an order filled at price.
Notified(notifications, price) ==
    IF Cardinality(notifications) < MaxPending
    THEN notifications \cup {price}
    ELSE notifications

\* A market order of the opening side for quantity.
MarketOpen(v, quantity, price) ==
    [v EXCEPT !.position = @ + quantity,
              !.notifications = Notified(@, price)]

\* The price a market order of the given side fills at.
market_price(book, side) == IF side = "buy" THEN book[2] ELSE book[1]

\* The call starts: place_close_order(quantity, price, close_order_side).
CallPlaceCloseOrder(quantity, price, caller) ==
    [run EXCEPT !.pc = "close_round", !.filled = 0,
                !.close_call = [quantity |-> quantity, price |-> price,
                                caller |-> caller, success |-> FALSE]]

\* The answers that end the loop of a placement.  A round the venue
\* rejected leaves nothing behind but retry_count, which only decides the
\* exhaustion of the loop: the engine follows the loop as its last round, or
\* as max_retries rejected rounds.
LastAnswers == BackpackAnswers \ {"rejected"}

\* Every round was rejected and the loop condition fails: 'Max retries
\* exceeded'.
PlaceOpenExhausted ==
    /\ run.pc = "open_round"
    /\ run' = [run EXCEPT !.pc = "open_result", !.order_result = OrderFailed]
    /\ UNCHANGED <<config, bot, account, hist, attempts, callVars>>

\* The last round of the loop: the book, the price, execute_order, its
\* answer.
PlaceOpenRound ==
    /\ run.pc = "open_round"
    /\ \E book \in Books, answer \in LastAnswers :
          LET order_price == open_order_price(book[1], book[2], TickSize,
                                 config.maker_aggressive, config.direction)
              submitted == open_submitted_price(book[1], book[2], TickSize,
                               config.maker_aggressive, config.direction)
              failed ==
                  /\ run' = [run EXCEPT !.pc = "open_result",
                                 !.order_result = OrderFailed]
                  /\ UNCHANGED account
          IN  IF submitted = None \/ answer \in {"empty", "no_id"}
              THEN failed
              ELSE CASE answer = "margin" ->
                        /\ run' = CallPlaceCloseOrder(Quantity,
                                      margin_close_price(book,
                                          close_order_side(config.direction)),
                                      "margin")
                        /\ UNCHANGED account
                     [] OTHER ->
                        /\ run' = [run EXCEPT !.pc = "open_poll", !.filled = 0,
                                       !.order_price = order_price]
                        /\ account' = [account EXCEPT !.open_order =
                               [live |-> TRUE, filled |-> 0, price |-> submitted]]
    /\ UNCHANGED <<config, bot, hist, attempts, callVars>>

\* The venue fills one unit of the resting opening order; the last unit
\* sends the FILLED notification.
OpenOrderFills ==
    /\ TimePasses
    /\ account.open_order.live
    /\ account.position < MaxPos
    /\ LET o == account.open_order
           full == o.filled + 1 = Quantity
       IN  /\ account' = [account EXCEPT
                  !.position = @ + 1,
                  !.open_order = [o EXCEPT !.filled = @ + 1, !.live = ~full],
                  !.notifications = IF full THEN Notified(@, o.price) ELSE @]
           /\ hist' = IF full /\ run.pc \in {"open_poll", "wait_fill"}
                      THEN [hist EXCEPT !.fill_price = o.price]
                      ELSE hist
    /\ UNCHANGED <<config, bot, run, attempts, callVars>>

\* One poll of the order: get_order_info finds nothing or the fill.
PollOpenOrder ==
    /\ run.pc = "open_poll"
    /\ \E info \in {None, account.open_order.filled} :
          LET filled == IF info = None THEN run.filled ELSE info
          IN  run' = IF filled >= Quantity
                     THEN [run EXCEPT !.filled = 0, !.pc = "open_result",
                              !.order_price = 0,
                              !.order_result = OrderPlaced("FILLED", run.order_price)]
                     ELSE [run EXCEPT !.filled = filled]
    /\ UNCHANGED <<config, bot, account, hist, attempts, callVars>>

\* The timeout of the polling.  No fill seen: the order is cancelled, the
\* result not read, and a market order takes its place.  A partial fill:
\* the order is left resting.
OpenOrderTimeout ==
    /\ run.pc = "open_poll"
    /\ IF run.filled = 0
       THEN \E cancelled \in BOOLEAN, ok \in BOOLEAN, book \in LiveBooks :
               LET price == market_price(book, config.direction)
                   after == IF cancelled
                            THEN [account EXCEPT !.open_order.live = FALSE]
                            ELSE account
               IN  /\ ok => account.position + Quantity <= MaxPos
                   /\ account' = IF ok THEN MarketOpen(after, Quantity, price)
                                 ELSE after
                   /\ hist' = IF ok THEN [hist EXCEPT !.fill_price = price] ELSE hist
                   /\ run' = [run EXCEPT !.pc = "open_result", !.order_price = 0,
                          !.order_result =
                              IF ok THEN OrderPlaced("FILLED", 0) ELSE OrderFailed]
       ELSE /\ run' = [run EXCEPT !.pc = "open_result", !.filled = 0,
                   !.order_price = 0,
                   !.order_result = OrderPlaced("PARTIALLY_FILLED", run.order_price)]
            /\ UNCHANGED <<account, hist>>
    /\ UNCHANGED <<config, bot, attempts, callVars>>

(***************************************************************************)
(* _place_and_monitor_open_order and _handle_order_result                  *)
(***************************************************************************)

\* close_price of _handle_order_result: take_profit percent beyond the
\* filled price, on the side of the close order.
take_profit_price(filled_price, close_side) ==
    IF close_side = "sell"
    THEN (filled_price * (100 + TakeProfit)) \div 100
    ELSE (filled_price * (100 - TakeProfit)) \div 100

\* The order the result names: the close order of the margin path, else the
\* opening order.
ResultNamesCloseOrder == run.close_call.caller = "margin"

\* What the venue answers to a cancel: it fails (raise, empty, an error
\* code), it cancels an order that rests and reports its fill, or it finds
\* no such order when none rests.
CancelAnswers(resting, filled) ==
    [kind : {"raise", "empty", "code"}, not_found : {FALSE}, executed : {None}]
    \cup (IF resting
          THEN [kind : {"ok"}, not_found : {FALSE}, executed : {filled}]
          ELSE [kind : {"code"}, not_found : {TRUE}, executed : {None}])

\* if not order_result.success: return False.
PlaceFailed ==
    /\ run.pc = "open_result"
    /\ ~run.order_result.success
    /\ run' = [run EXCEPT !.pc = "attempt_end"]
    /\ UNCHANGED <<config, bot, account, hist, attempts, callVars>>

\* Not FILLED and the event not set: wait for the event, ten seconds.
AwaitFilledEvent ==
    /\ run.pc = "open_result"
    /\ run.order_result.success
    /\ run.order_result.status # "FILLED"
    /\ ~bot.order_filled_event
    /\ run' = [run EXCEPT !.pc = "wait_fill"]
    /\ UNCHANGED <<config, bot, account, hist, attempts, callVars>>

\* _handle_order_result, the event set or the status FILLED: the filled
\* price kept, and one close order asked for.  The opening order is followed
\* no further.
HandleFilled ==
    /\ \/ /\ run.pc = "open_result"
          /\ run.order_result.success
          /\ run.order_result.status = "FILLED" \/ bot.order_filled_event
       \/ /\ run.pc = "wait_fill"
          /\ bot.order_filled_event
    /\ LET filled_price == run.order_result.price
           close_price == take_profit_price(filled_price,
                              close_order_side(config.direction))
       IN  /\ bot' = [bot EXCEPT !.last_filled_price = filled_price,
                          !.last_open_order_time = 1]
           /\ run' = CallPlaceCloseOrder(Quantity, close_price,
                          IF ResultNamesCloseOrder THEN "margin_filled" ELSE "filled")
           /\ account' = [account EXCEPT !.open_order = NoOpenOrder,
                                  !.abandoned = @ \/ account.open_order.live]
    /\ UNCHANGED <<config, hist, attempts, callVars>>

\* _handle_order_result, the wait timed out: cancel_order, its filled_size
\* into order_filled_amount, and a close order for it when it is positive.
\* A failed cancel leaves filled_size None, and the comparison raises.
\* last_open_order_time, written after the close order, is written here.
\* The opening order is followed no further.
HandleCanceled ==
    /\ run.pc = "wait_fill"
    /\ ~bot.order_filled_event
    /\ LET i == CurrentClose(account)
           resting == IF ResultNamesCloseOrder
                      THEN i > 0 /\ account.close_orders[i].filled
                                       < account.close_orders[i].size
                      ELSE account.open_order.live
           filled == IF ResultNamesCloseOrder
                     THEN IF i > 0 THEN account.close_orders[i].filled ELSE 0
                     ELSE account.open_order.filled
       IN  \E resp \in CancelAnswers(resting, filled),
              info \in {None, filled}, pos \in PositionReads :
              LET r == cancel_order(resp, info, pos, Quantity)
                  close_price == take_profit_price(run.order_result.price,
                                     close_order_side(config.direction))
                  asks == r.success /\ r.filled_size > 0
              IN  /\ account' =
                         IF ResultNamesCloseOrder
                         THEN IF resp.kind = "ok"
                              THEN [account EXCEPT !.close_orders = RemoveAt(@, i)]
                              ELSE account
                         ELSE [account EXCEPT !.open_order = NoOpenOrder,
                                  !.abandoned = @ \/ (/\ account.open_order.live
                                                      /\ resp.kind # "ok")]
                  /\ bot' = [bot EXCEPT !.last_open_order_time = IF asks THEN 1 ELSE @]
                  /\ hist' = [hist EXCEPT !.filled_at_cancel = filled]
                  /\ run' = IF asks
                            THEN [CallPlaceCloseOrder(r.filled_size, close_price,
                                      IF ResultNamesCloseOrder THEN "margin_cancel"
                                      ELSE "cancel")
                                     EXCEPT !.order_filled_amount = r.filled_size]
                            ELSE [run EXCEPT !.pc = "attempt_end",
                                     !.close_call.caller =
                                         IF ResultNamesCloseOrder THEN "margin_cancel"
                                         ELSE "cancel",
                                     !.order_filled_amount = r.filled_size]
    /\ UNCHANGED <<config, attempts, callVars>>

\* The attempt returned: last_close_orders += 1, and the cycle ends.
AttemptEnd ==
    /\ run.pc = "attempt_end"
    /\ bot' = [bot EXCEPT !.last_close_orders = @ + 1]
    /\ account' = [account EXCEPT !.close_orders = Settled(@),
                           !.open_order = NoOpenOrder,
                           !.abandoned = @ \/ account.open_order.live]
    /\ run' = [RunInit EXCEPT !.pc = "cycle_end"]
    /\ hist' = HistInit
    /\ UNCHANGED <<config, attempts, callVars>>

\* The end of a cycle, by continue or by the end of the loop body.
CycleEnd ==
    /\ run.pc = "cycle_end"
    /\ run' = RunInit
    /\ hist' = HistInit
    /\ UNCHANGED <<config, bot, account, attempts, callVars>>

(***************************************************************************)
(* order_update_handler                                                    *)
(***************************************************************************)

\* Where run is between its read of the position and the end of its
\* global SL/TP check.
SlTpChecks ==
    {"first_sltp", "first_sltp_reread", "clear", "recheck", "active_orders",
     "second_sltp", "second_sltp_reread", "global_sltp"}

\* A FILLED notification of an opening order: the price kept, and the
\* event's set handed to the loop.
OrderUpdateHandler ==
    /\ run.pc \notin {"stopped", "raised"}
    /\ \E price \in account.notifications :
          /\ account' = [account EXCEPT !.notifications = @ \ {price}]
          /\ bot' = [bot EXCEPT !.last_filled_price = price,
                         !.set_scheduled = TRUE]
    /\ hist' = [hist EXCEPT !.sltp_notified = @ \/ run.pc \in SlTpChecks]
    /\ UNCHANGED <<config, run, attempts, callVars>>

\* The loop runs order_filled_event.set.
OrderFilledEventSet ==
    /\ bot.set_scheduled
    /\ bot' = [bot EXCEPT !.order_filled_event = TRUE, !.set_scheduled = FALSE]
    /\ UNCHANGED <<config, run, account, hist, attempts, callVars>>

(***************************************************************************)
(* The status log and the gate after it: TradingBot.run and the run of     *)
(* EdgeXTradingBot (src/runbot.py)                                         *)
(***************************************************************************)

\* Largest position and largest sum of close-order sizes of a status pass.
MaxStatusPos == 5

\* config.quantity of a status pass.
StatusQuantities == {1, 2}

Engines == {"trading_bot", "runbot"}

\* The mismatch test of EdgeXTradingBot._log_status_periodically.
position_mismatch(position_amt, active_close_amount, quantity) ==
    Abs(position_amt - active_close_amount) > 2 * quantity

\* EdgeXTradingBot._log_status_periodically: inside its period it does
\* nothing; when the log is due, a mismatch is logged and shutdown requested.
runbot_log_status(s) ==
    IF s.due /\ position_mismatch(s.position_amt, s.active_close_amount, s.quantity)
    THEN [s EXCEPT !.pc = "logged", !.error_logged = TRUE,
                   !.shutdown_requested = TRUE]
    ELSE [s EXCEPT !.pc = "logged"]

\* TradingBot.run from the status log to _check_price_condition: the log's
\* return value kept as mismatch_detected; a stop price shuts down and a
\* pause price sleeps, and both continue.
trading_bot_log_status(s) ==
    LET logged == [s EXCEPT !.mismatch_detected =
                       log_status_periodically(s.position_amt, <<>>)]
    IN  IF s.stop_trading
        THEN [logged EXCEPT !.pc = "continued", !.shutdown_requested = TRUE]
        ELSE IF s.pause_trading
        THEN [logged EXCEPT !.pc = "continued"]
        ELSE [logged EXCEPT !.pc = "logged"]

StatusIdle ==
    [pc |-> "idle", engine |-> "trading_bot", position_amt |-> 0,
     active_close_amount |-> 0, quantity |-> 1, due |-> FALSE,
     stop_trading |-> FALSE, pause_trading |-> FALSE, wait |-> FALSE,
     mismatch_detected |-> FALSE, error_logged |-> FALSE,
     shutdown_requested |-> FALSE]

\* The passes followed: due says that the period of the log has passed,
\* wait that _calculate_wait_time answers a wait, stop_trading and
\* pause_trading what _check_price_condition answers to TradingBot.run.
StatusInputs ==
    {s \in [pc : {"input"}, engine : Engines, position_amt : 0..MaxStatusPos,
            active_close_amount : 0..MaxStatusPos, quantity : StatusQuantities,
            due : BOOLEAN, stop_trading : BOOLEAN, pause_trading : BOOLEAN,
            wait : BOOLEAN, mismatch_detected : {FALSE}, error_logged : {FALSE},
            shutdown_requested : {FALSE}] :
        s.engine = "runbot" => ~s.stop_trading /\ ~s.pause_trading}

\* await self._log_status_periodically(), and what run does before the gate.
StatusLog ==
    /\ status.pc = "input"
    /\ status' = IF status.engine = "runbot"
                 THEN runbot_log_status(status)
                 ELSE trading_bot_log_status(status)
    /\ UNCHANGED <<pricing, cancel, place, call, engineVars>>

\* The gate: TradingBot.run asks mismatch_detected first; both sleep on a
\* wait and else start _place_and_monitor_open_order.
StatusGate ==
    /\ status.pc = "logged"
    /\ status' = [status EXCEPT !.pc =
           IF status.engine = "trading_bot" /\ status.mismatch_detected
           THEN "skipped"
           ELSE IF status.wait THEN "slept" ELSE "placing"]
    /\ UNCHANGED <<pricing, cancel, place, call, engineVars>>

(***************************************************************************)
(* BackpackClient.place_close_order, as the engine and place_open_order    *)
(* call it                                                                 *)
(***************************************************************************)

\* What the venue answers to the post-only close order of one round.
CloseAnswers == {"empty", "no_id", "accepted"}

\* A _handle_order_result that lets a failed close order out as an error.
CloseReturnRaises(result) ==
    IF run.close_call.caller = "margin"
    THEN [run EXCEPT !.pc = "open_result", !.filled = 0, !.order_result = result]
    ELSE [run EXCEPT !.pc = IF result.success THEN "attempt_end" ELSE "raised",
                     !.filled = 0, !.close_call.success = result.success]

\* place_close_order returns: to place_open_order, which returns the result
\* as its own, or to _handle_order_result, which only logs a failure.
CloseReturn(result) ==
    IF run.close_call.caller = "margin"
    THEN [run EXCEPT !.pc = "open_result", !.filled = 0, !.order_result = result]
    ELSE [run EXCEPT !.pc = "attempt_end", !.filled = 0,
                     !.close_call.success = result.success]

\* Every round was rejected and the loop condition fails.
PlaceCloseExhausted ==
    /\ run.pc = "close_round"
    /\ run' = CloseReturn(OrderFailed)
    /\ UNCHANGED <<config, bot, account, hist, attempts, callVars>>

\* The last round of the loop: the book, the price moved off the touch and
\* rounded, execute_order, its answer.
PlaceCloseRound ==
    /\ run.pc = "close_round"
    /\ \E book \in Books, answer \in CloseAnswers :
          LET submitted == close_submitted_price(run.close_call.price,
                               book[1], book[2], TickSize, config.maker_aggressive,
                               close_order_side(config.direction))
          IN  IF submitted = None \/ answer \in {"empty", "no_id"}
              THEN /\ run' = CloseReturn(OrderFailed)
                   /\ UNCHANGED <<account, hist>>
              ELSE /\ Len(Settled(account.close_orders)) < MaxClose
                   /\ run' = [run EXCEPT !.pc = "close_poll", !.filled = 0]
                   /\ account' = [account EXCEPT !.close_orders =
                          Append(Settled(@),
                                 CloseOrder(run.close_call.quantity, submitted))]
                   /\ hist' = [hist EXCEPT !.close_placed = @ + 1]
    /\ UNCHANGED <<config, bot, attempts, callVars>>

\* The venue fills one unit of a resting close order.
CloseOrderFills ==
    /\ TimePasses
    /\ account.position > 0 - MaxShort
    /\ \E i \in 1..Len(account.close_orders) :
          LET o == account.close_orders[i]
              full == o.filled + 1 = o.size
          IN  /\ Resting(o)
              /\ account' = [account EXCEPT
                     !.position = @ - 1,
                     !.close_orders =
                         IF full /\ ~o.current THEN RemoveAt(@, i)
                         ELSE [@ EXCEPT ![i].filled = o.filled + 1]]
    /\ UNCHANGED <<config, bot, run, hist, attempts, callVars>>

\* One poll of the close order.
PollCloseOrder ==
    /\ run.pc = "close_poll"
    /\ LET i == CurrentClose(account)
       IN  \E info \in {None, account.close_orders[i].filled} :
              LET filled == IF info = None THEN run.filled ELSE info
              IN  run' = IF filled >= run.close_call.quantity
                         THEN CloseReturn(OrderPlaced("FILLED",
                                  account.close_orders[i].price))
                         ELSE [run EXCEPT !.filled = filled]
    /\ UNCHANGED <<config, bot, account, hist, attempts, callVars>>

\* The timeout of the polling.  No fill seen: the order is cancelled, the
\* result not read, and a market order of the closing side takes its place.
\* A partial fill: the order is left resting.
CloseOrderTimeout ==
    /\ run.pc = "close_poll"
    /\ LET i == CurrentClose(account)
           o == account.close_orders[i]
       IN  IF run.filled = 0
           THEN \E cancelled \in BOOLEAN, ok \in BOOLEAN :
                   LET after == IF cancelled /\ Resting(o)
                                THEN [account EXCEPT !.close_orders = RemoveAt(@, i)]
                                ELSE account
                   IN  /\ WithinLimit(run.close_call.quantity, ok)
                       /\ account' = MarketClose(after, run.close_call.quantity, ok)
                       /\ run' = CloseReturn(
                              IF ok THEN OrderPlaced("FILLED", 0) ELSE OrderFailed)
           ELSE /\ run' = CloseReturn(OrderPlaced("PARTIALLY_FILLED", o.price))
                /\ UNCHANGED account
    /\ UNCHANGED <<config, bot, hist, attempts, callVars>>

(***************************************************************************)
(* The engine                                                              *)
(***************************************************************************)

\* The positions the account may hold when the bot starts.
InitPositions == {0}

Init ==
    /\ config \in Configs
    /\ bot = BotInit
    /\ run = RunInit
    /\ \E p \in InitPositions : account = AccountInit(p)
    /\ hist = HistInit
    /\ attempts = 0
    /\ pricing = PricingIdle
    /\ cancel = CancelIdle
    /\ place = PlaceIdle
    /\ status = StatusIdle
    /\ call = CallIdle

Next ==
    \/ RunLoopTop
    \/ RunLoopExit
    \/ FirstSlTpCheck
    \/ FirstSlTpReread
    \/ ClearExistingPosition
    \/ RecheckPosition
    \/ GetActiveOrders
    \/ SecondSlTpCheck
    \/ SecondSlTpReread
    \/ GlobalSlTpCheck
    \/ CheckPriceCondition
    \/ CalculateWaitTime
    \/ MeetGridStepCondition
    \/ PlaceOpenExhausted
    \/ PlaceOpenRound
    \/ OpenOrderFills
    \/ PollOpenOrder
    \/ OpenOrderTimeout
    \/ PlaceFailed
    \/ AwaitFilledEvent
    \/ HandleFilled
    \/ HandleCanceled
    \/ PlaceCloseExhausted
    \/ PlaceCloseRound
    \/ CloseOrderFills
    \/ PollCloseOrder
    \/ CloseOrderTimeout
    \/ AttemptEnd
    \/ CycleEnd
    \/ OrderUpdateHandler
    \/ OrderFilledEventSet

Spec == Init /\ [][Next]_vars


(***************************************************************************)
(* TradingBot.run: the ways out of it                                      *)
(*                                                                         *)
(* The try / except / finally of run, with the body of an iteration        *)
(* followed only as far as it decides how the iteration ends.              *)
(***************************************************************************)

\* The iterations followed.
MaxIterations == 5

\* graceful_shutdown: the flag set, disconnect called; what disconnect
\* raises is caught.
graceful_shutdown(r) ==
    [r EXCEPT !.shutdown_requested = TRUE, !.disconnects = r.disconnects + 1]

\* get_contract_attributes and connect: they return, raise, or the task is
\* cancelled while run awaits them.
ExitConnect ==
    /\ call.pc = "run_start"
    /\ \/ call' = [call EXCEPT !.pc = "while", !.connected = TRUE]
       \/ \E connected \in BOOLEAN :
             call' = [call EXCEPT !.pc = "except", !.connected = connected,
                                  !.cause = "exception"]
       \/ \E connected \in BOOLEAN :
             call' = [call EXCEPT !.pc = "finally", !.connected = connected,
                                  !.cause = "cancelled"]
    /\ UNCHANGED <<pricing, cancel, place, status, engineVars>>

\* while not self.shutdown_requested
ExitLoopTop ==
    /\ call.pc = "while"
    /\ IF call.shutdown_requested
       THEN call' = [call EXCEPT !.pc = "finally"]
       ELSE /\ call.iterations < MaxIterations
            /\ call' = [call EXCEPT !.pc = "iteration", !.cause = "none",
                                    !.iterations = call.iterations + 1]
    /\ UNCHANGED <<pricing, cancel, place, status, engineVars>>

\* One iteration up to the call of _place_and_monitor_open_order: the global
\* check sets the flag, the stop price shuts down, a gate ends the
\* iteration, one of the SL/TP checks or _clear_existing_position catches
\* and logs what was raised inside it (caught), an await outside them
\* raises or is cancelled, the user interrupts, or the order is placed.
ExitIteration ==
    /\ call.pc = "iteration"
    /\ \/ call' = [call EXCEPT !.pc = "while", !.shutdown_requested = TRUE,
                               !.cause = "global"]
       \/ call' = [graceful_shutdown(call) EXCEPT !.pc = "while",
                                                  !.cause = "stop_price"]
       \/ call' = [call EXCEPT !.pc = "while"]
       \/ call' = [call EXCEPT !.pc = "while", !.cause = "caught"]
       \/ call' = [call EXCEPT !.pc = "except", !.cause = "exception"]
       \/ call' = [call EXCEPT !.pc = "except", !.cause = "interrupt"]
       \/ call' = [call EXCEPT !.pc = "finally", !.cause = "cancelled"]
       \/ call' = [call EXCEPT !.pc = "placing"]
    /\ UNCHANGED <<pricing, cancel, place, status, engineVars>>

\* _place_and_monitor_open_order: it returns, or it catches and logs an
\* exception raised inside it and returns False (caught); a cancellation of the task it answers with graceful_shutdown
\* and returns.  Then last_close_orders += 1.
ExitPlacement ==
    /\ call.pc = "placing"
    /\ \/ call' = [call EXCEPT !.pc = "while"]
       \/ call' = [call EXCEPT !.pc = "while", !.cause = "caught"]
       \/ call' = [graceful_shutdown(call) EXCEPT
                       !.pc = "while", !.cause = "cancelled_placing"]
    /\ UNCHANGED <<pricing, cancel, place, status, engineVars>>

\* except KeyboardInterrupt, except Exception: graceful_shutdown, and the
\* exception raised again.
ExitHandlers ==
    /\ call.pc = "except"
    /\ call' = [graceful_shutdown(call) EXCEPT !.pc = "finally"]
    /\ UNCHANGED <<pricing, cancel, place, status, engineVars>>

\* A way out that leaves the connection as it is.
ExitFinallySkipped ==
    /\ call.pc = "finally"
    /\ call' = [call EXCEPT
           !.pc = IF call.cause \in {"exception", "cancelled"}
                  THEN "raised" ELSE "returned"]
    /\ UNCHANGED <<pricing, cancel, place, status, engineVars>>

\* finally: disconnect, and what it raises is caught; then run returns, or
\* raises what it did not handle.
ExitFinally ==
    /\ call.pc = "finally"
    /\ call' = [call EXCEPT
           !.disconnects = call.disconnects + 1,
           !.pc = IF call.cause \in {"exception", "cancelled"}
                  THEN "raised" ELSE "returned"]
    /\ UNCHANGED <<pricing, cancel, place, status, engineVars>>

(***************************************************************************)
(* BackpackClient.place_open_order after the venue accepted the limit      *)
(* order: the polling window and what follows its end                      *)
(***************************************************************************)

\* The polls of get_order_info the window has room for.
MaxPolls == 3

\* The venue fills one unit of the limit order while it rests.
LimitOrderFills ==
    /\ call.pc = "polling"
    /\ call.resting
    /\ call' = [call EXCEPT !.at_venue = @ + 1,
                            !.resting = call.at_venue + 1 < Quantity]
    /\ UNCHANGED <<pricing, cancel, place, status, engineVars>>

\* One poll inside the window that never returns on a full fill.
PollOrderInfoNoReturn ==
    /\ call.pc = "polling"
    /\ call.polls < MaxPolls
    /\ \E info \in {Raised, None, call.at_venue}, task_cancelled \in BOOLEAN :
          /\ task_cancelled => info = Raised
          /\ call' =
                  IF info = Raised
                  THEN [call EXCEPT !.pc = "poll_done",
                           !.interrupted = task_cancelled, !.result =
                           [success |-> FALSE, order_id |-> "none", status |-> "none"]]
                  ELSE IF info = None
                  THEN [call EXCEPT !.polls = @ + 1]
                  ELSE [call EXCEPT !.polls = @ + 1, !.filled = info]
    /\ UNCHANGED <<pricing, cancel, place, status, engineVars>>

\* One poll inside the window: sleep, get_order_info.  It raises, or the
\* task is cancelled in one of the two awaits (interrupted), and the call
\* returns a failure; it finds nothing; or it reports filled_size, and a
\* full fill returns the limit order as FILLED.
PollOrderInfo ==
    /\ call.pc = "polling"
    /\ call.polls < MaxPolls
    /\ \E info \in {Raised, None, call.at_venue}, task_cancelled \in BOOLEAN :
          /\ task_cancelled => info = Raised
          /\ call' =
                  IF info = Raised
                  THEN [call EXCEPT !.pc = "poll_done",
                           !.interrupted = task_cancelled, !.result =
                           [success |-> FALSE, order_id |-> "none", status |-> "none"]]
                  ELSE IF info = None
                  THEN [call EXCEPT !.polls = @ + 1]
                  ELSE IF info >= Quantity
                  THEN [call EXCEPT !.pc = "poll_done", !.filled = info,
                           !.result = [success |-> TRUE, order_id |-> "limit",
                                       status |-> "FILLED"]]
                  ELSE [call EXCEPT !.polls = @ + 1, !.filled = info]
    /\ UNCHANGED <<pricing, cancel, place, status, engineVars>>

\* The window ends.  No fill seen: cancel_order, its result not read, then
\* a market order of the same side and quantity, whose id is not checked;
\* a task cancelled in the cancel request ends the call.  A partial fill
\* seen: the limit order is returned as it rests.
PollTimeout ==
    /\ call.pc = "polling"
    /\ IF call.filled = 0
       THEN \E cancelled \in BOOLEAN,
               answer \in {"task_cancelled", "empty", "code", "no_id", "accepted"} :
               LET cancel_call == [op |-> "cancel", order_id |-> "limit"]
                   market_call == [op |-> "market",
                                   side |-> IF call.direction = "buy"
                                            THEN "Bid" ELSE "Ask",
                                   quantity |-> Quantity]
                   resting == call.resting /\ ~cancelled
               IN  call' =
                       IF answer = "task_cancelled"
                       THEN [call EXCEPT !.pc = "poll_done", !.timed_out = TRUE,
                                !.resting = resting,
                                !.interrupted = TRUE,
                                !.calls = <<cancel_call>>,
                                !.result = [success |-> FALSE, order_id |-> "none",
                                            status |-> "none"]]
                       ELSE [call EXCEPT !.pc = "poll_done", !.timed_out = TRUE,
                                !.resting = resting,
                                !.calls = <<cancel_call, market_call>>,
                                !.market = answer,
                                !.result =
                                    IF answer \in {"empty", "code"}
                                    THEN [success |-> FALSE, order_id |-> "none",
                                          status |-> "none"]
                                    ELSE [success |-> TRUE,
                                          order_id |-> IF answer = "accepted"
                                                       THEN "market" ELSE "none",
                                          status |-> "FILLED"]]
       ELSE call' = [call EXCEPT !.pc = "poll_done", !.timed_out = TRUE,
                        !.result = [success |-> TRUE, order_id |-> "limit",
                                    status |-> "PARTIALLY_FILLED"]]
    /\ UNCHANGED <<pricing, cancel, place, status, engineVars>>

(***************************************************************************)
(* query_retry, the decorator of the gateway's queries                     *)
(***************************************************************************)

\* The largest max_attempts followed.
MaxRetryAttempts == 5

\* One attempt whose last failure leaves the call as an exception.
QueryAttemptReraise ==
    /\ call.pc = "retrying"
    /\ \E outcome \in {"return", "retried_error", "other_error"} :
          call' = [call EXCEPT
              !.attempts = @ + 1,
              !.last = outcome,
              !.pc = IF outcome = "retried_error"
                        /\ call.attempts + 1 < call.max_attempts
                     THEN "retrying" ELSE "retry_done",
              !.result = CASE outcome = "return" -> "own"
                           [] outcome = "other_error" -> "raise"
                           [] call.attempts + 1 < call.max_attempts -> "none"
                           [] OTHER -> "raise"]
    /\ UNCHANGED <<pricing, cancel, place, status, engineVars>>

\* One attempt of the decorated query: it returns and its result is the
\* call's; it raises an exception outside exception_type, which leaves the
\* call; or it raises one of the retried kind, and the call tries again
\* until max_attempts attempts were made, then returns default_return.
QueryAttempt ==
    /\ call.pc = "retrying"
    /\ \E outcome \in {"return", "retried_error", "other_error"} :
          call' = [call EXCEPT
              !.attempts = @ + 1,
              !.last = outcome,
              !.pc = IF outcome = "retried_error"
                        /\ call.attempts + 1 < call.max_attempts
                     THEN "retrying" ELSE "retry_done",
              !.result = CASE outcome = "return" -> "own"
                           [] outcome = "other_error" -> "raise"
                           [] call.attempts + 1 < call.max_attempts -> "none"
                           [] OTHER -> call.default_return]
    /\ UNCHANGED <<pricing, cancel, place, status, engineVars>>

(***************************************************************************)
(* TradingBot.run: the two per-trade SL/TP checks of a cycle, on their own *)
(***************************************************************************)

\* One of the two checks with what it reads: position_amt as run read it,
\* last_filled_price, the book fetch_bbo_prices answers and whether
\* place_market_order succeeds.  The first check is inside position_amt > 0,
\* wants last_filled_price > 0 and both prices of the book above 0, and does
\* not look at the result of the market order; the second wants
\* last_filled_price not None and last_price > 0, takes the book as it
\* comes, and forgets last_filled_price and reads the position again only
\* when the market order succeeded.
SlTpCheck ==
    /\ call.pc = "sltp_input"
    /\ LET entry == call.entry
           considered ==
               /\ call.position_amt > 0
               /\ entry # None /\ entry > 0
               /\ call.check = "first" => (call.book[1] > 0 /\ call.book[2] > 0)
           hit == /\ considered
                  /\ \/ loss_reached(entry, call.book, call.direction,
                                     stop_loss_threshold)
                     \/ profit_reached(entry, call.book, call.direction,
                                       take_profit_threshold)
           cleared == hit /\ (call.check = "first" \/ call.market_ok)
       IN  call' = [call EXCEPT
               !.pc = "sltp_done",
               !.market = IF hit THEN call.position_amt ELSE 0,
               !.last_filled_price = IF cleared THEN None ELSE @,
               !.reread = cleared]
    /\ UNCHANGED <<pricing, cancel, place, status, engineVars>>

(***************************************************************************)
(* order_update_handler and the fill wait of one open-order attempt        *)
(***************************************************************************)

\* Notifications one attempt handles at most.
MaxMessages == 2

\* The statuses the gateways report, and those after which an order changes
\* no more.
Statuses == {"OPEN", "PARTIALLY_FILLED", "FILLED", "CANCELED", "REJECTED", "EXPIRED"}

TerminalStatuses == {"FILLED", "CANCELED", "REJECTED", "EXPIRED"}

\* The messages of the push channel: of the configured contract or another,
\* of the order this attempt placed or an earlier one, of an opening or a
\* closing order; filled_size as the status allows, price given or missing.
Messages ==
    {m \in [contract_id : {"own", "foreign"}, order_id : {"current", "earlier"},
            order_type : {"OPEN", "CLOSE"}, status : Statuses,
            filled_size : 0..Quantity, price : {None, 10000}] :
        /\ m.status = "FILLED" => m.filled_size = Quantity
        /\ m.status \in {"OPEN", "REJECTED"} => m.filled_size = 0
        /\ m.status = "PARTIALLY_FILLED"
               => (m.filled_size > 0 /\ m.filled_size < Quantity)
        /\ m.status \in {"CANCELED", "EXPIRED"} => m.filled_size < Quantity}

NoMessage ==
    [contract_id |-> "none", order_id |-> "none", order_type |-> "none",
     status |-> "none", filled_size |-> 0, price |-> None]

\* A handler that writes the status of every order of the contract, the
\* closing ones too.
HandlerMessageAnyType ==
    /\ call.pc \in {"placing", "fill_wait"}
    /\ call.received < MaxMessages
    /\ \E m \in Messages :
          LET ours == m.contract_id = "own"
              open == ours /\ m.order_type = "OPEN"
              filled == open /\ m.status = "FILLED"
              canceled == open /\ m.status = "CANCELED"
          IN  call' = [call EXCEPT
                  !.received = @ + 1,
                  !.last = m,
                  !.terminal = @ \/ (/\ open /\ m.order_id = "current"
                                     /\ m.status \in TerminalStatuses),
                  !.reported_filled = @ \/ (filled /\ m.order_id = "current"),
                  !.current_order_status = IF ours THEN m.status ELSE @,
                  !.order_filled_amount =
                      IF filled \/ canceled THEN m.filled_size ELSE @,
                  !.last_filled_price =
                      IF filled /\ m.price # None THEN m.price ELSE @,
                  !.filled_scheduled = @ \/ filled,
                  !.posted_in_wait =
                      @ \/ (/\ filled /\ call.pc = "fill_wait"
                            /\ ~call.filled_scheduled),
                  !.canceled_scheduled = @ \/ canceled]
    /\ UNCHANGED <<pricing, cancel, place, status, engineVars>>

\* order_update_handler, called by the gateway for one message: another
\* contract returns; an OPEN order's status is written; FILLED of an OPEN
\* order writes the filled amount and the price, when it is one, and hands
\* order_filled_event.set to the loop; CANCELED of an OPEN order writes the
\* filled amount and hands order_canceled_event.set to the loop; the rest
\* is logged.  The order_id is logged only.
HandlerMessage ==
    /\ call.pc \in {"placing", "fill_wait"}
    /\ call.received < MaxMessages
    /\ \E m \in Messages :
          LET ours == m.contract_id = "own"
              open == ours /\ m.order_type = "OPEN"
              filled == open /\ m.status = "FILLED"
              canceled == open /\ m.status = "CANCELED"
          IN  call' = [call EXCEPT
                  !.received = @ + 1,
                  !.last = m,
                  !.terminal = @ \/ (/\ open /\ m.order_id = "current"
                                     /\ m.status \in TerminalStatuses),
                  !.reported_filled = @ \/ (filled /\ m.order_id = "current"),
                  !.current_order_status = IF open THEN m.status ELSE @,
                  !.order_filled_amount =
                      IF filled \/ canceled THEN m.filled_size ELSE @,
                  !.last_filled_price =
                      IF filled /\ m.price # None THEN m.price ELSE @,
                  !.filled_scheduled = @ \/ filled,
                  !.posted_in_wait =
                      @ \/ (/\ filled /\ call.pc = "fill_wait"
                            /\ ~call.filled_scheduled),
                  !.canceled_scheduled = @ \/ canceled]
    /\ UNCHANGED <<pricing, cancel, place, status, engineVars>>

\* The loop runs a callback handed to it by call_soon_threadsafe.
LoopCallback ==
    /\ call.pc \in {"placing", "fill_wait"}
    /\ \/ /\ call.filled_scheduled
          /\ call' = [call EXCEPT !.filled_scheduled = FALSE,
                          !.posted_in_wait = FALSE,
                          !.order_filled_event = TRUE]
       \/ /\ call.canceled_scheduled
          /\ call' = [call EXCEPT !.canceled_scheduled = FALSE,
                          !.order_canceled_event = TRUE]
    /\ UNCHANGED <<pricing, cancel, place, status, engineVars>>

\* place_open_order returned an accepted order: FILLED goes to
\* _handle_order_result, a set event skips the wait, else the wait begins.
PlaceReturns ==
    /\ call.pc = "placing"
    /\ call' = [call EXCEPT
           !.pc = IF call.result_status = "FILLED" \/ call.order_filled_event
                  THEN "handle_result" ELSE "fill_wait",
           !.ended = IF call.result_status = "FILLED" THEN "status"
                     ELSE IF call.order_filled_event THEN "set" ELSE "none",
           !.branch = IF call.result_status = "FILLED" \/ call.order_filled_event
                      THEN "filled" ELSE "none"]
    /\ UNCHANGED <<pricing, cancel, place, status, engineVars>>

\* wait_for(order_filled_event.wait(), timeout=10): the event ends the
\* wait, or the ten seconds do; then, with no await in between,
\* _handle_order_result takes the filled branch when the event is set and
\* cancels the order when it is not.  A set the handler handed to the loop
\* runs when the loop comes to it: one handed over before the wait began
\* has run when the ten seconds end, one handed over during the wait
\* (posted_in_wait) may still be in the loop's queue when the timeout wakes
\* the engine.
FillWait ==
    /\ call.pc = "fill_wait"
    /\ \/ /\ call.order_filled_event
          /\ call' = [call EXCEPT !.pc = "handle_result", !.ended = "event",
                          !.branch = "filled"]
       \/ /\ ~call.order_filled_event
          /\ call.filled_scheduled => call.posted_in_wait
          /\ call' = [call EXCEPT !.pc = "handle_result", !.ended = "timeout",
                          !.branch = "cancel"]
    /\ UNCHANGED <<pricing, cancel, place, status, engineVars>>
(***************************************************************************)
(* Specifications of the gateway calls                                     *)
(***************************************************************************)

InitPricing ==
    /\ pricing \in PricingInputs
    /\ cancel = CancelIdle
    /\ place = PlaceIdle
    /\ status = StatusIdle
    /\ call = CallIdle
    /\ EngineIdle

NextPricing == PricingOpen \/ PricingClose \/ EdgeXPricingOpen

SpecPricing == InitPricing /\ [][NextPricing]_vars

InitCancel ==
    /\ pricing = PricingIdle
    /\ cancel \in CancelInputs
    /\ place = PlaceIdle
    /\ status = StatusIdle
    /\ call = CallIdle
    /\ EngineIdle

NextCancel == CancelOrderCall

SpecCancel == InitCancel /\ [][NextCancel]_vars

InitPlace ==
    /\ pricing = PricingIdle
    /\ cancel = CancelIdle
    /\ place \in PlaceInputs
    /\ status = StatusIdle
    /\ call = CallIdle
    /\ EngineIdle

NextPlace ==
    \/ BackpackRound
    \/ BackpackExhausted
    \/ BackpackSubmit
    \/ ParadexRound
    \/ ParadexSubmit

SpecPlace == InitPlace /\ [][NextPlace]_vars

InitStatus ==
    /\ pricing = PricingIdle
    /\ cancel = CancelIdle
    /\ place = PlaceIdle
    /\ status \in StatusInputs
    /\ call = CallIdle
    /\ EngineIdle

NextStatus == StatusLog \/ StatusGate

SpecStatus == InitStatus /\ [][NextStatus]_vars

InitGrid ==
    /\ pricing = PricingIdle
    /\ cancel = CancelIdle
    /\ place = PlaceIdle
    /\ status = StatusIdle
    /\ call \in GridInputs
    /\ EngineIdle

SpecGrid == InitGrid /\ [][MeetGridStepCalls]_vars

InitExit ==
    /\ pricing = PricingIdle
    /\ cancel = CancelIdle
    /\ place = PlaceIdle
    /\ status = StatusIdle
    /\ call = [pc |-> "run_start", shutdown_requested |-> FALSE,
               connected |-> FALSE, disconnects |-> 0, iterations |-> 0,
               cause |-> "none"]
    /\ EngineIdle

NextExit ==
    \/ ExitConnect
    \/ ExitLoopTop
    \/ ExitIteration
    \/ ExitPlacement
    \/ ExitHandlers
    \/ ExitFinally

SpecExit == InitExit /\ [][NextExit]_vars

InitPoll ==
    /\ pricing = PricingIdle
    /\ cancel = CancelIdle
    /\ place = PlaceIdle
    /\ status = StatusIdle
    /\ \E direction \in Sides :
          call = [pc |-> "polling", direction |-> direction, polls |-> 0,
                  at_venue |-> 0, resting |-> TRUE, filled |-> 0,
                  timed_out |-> FALSE, calls |-> <<>>, market |-> "none",
                  interrupted |-> FALSE,
                  result |-> [success |-> FALSE, order_id |-> "none",
                              status |-> "none"]]
    /\ EngineIdle

NextPoll == LimitOrderFills \/ PollOrderInfo \/ PollTimeout

SpecPoll == InitPoll /\ [][NextPoll]_vars

\* The decorated queries: default_return as the gateway passes it, and
\* max_attempts.
InitRetry ==
    /\ pricing = PricingIdle
    /\ cancel = CancelIdle
    /\ place = PlaceIdle
    /\ status = StatusIdle
    /\ call \in [pc : {"retrying"}, default_return : {"(0, 0)", "None", "[]", "0"},
                 max_attempts : 1..MaxRetryAttempts, attempts : {0},
                 last : {"none"}, result : {"none"}]
    /\ EngineIdle

SpecRetry == InitRetry /\ [][QueryAttempt]_vars

\* The checks of run with a position, a remembered fill price or none, and
\* a book at, above or below it.
InitSlTp ==
    /\ pricing = PricingIdle
    /\ cancel = CancelIdle
    /\ place = PlaceIdle
    /\ status = StatusIdle
    /\ \E check \in {"first", "second"}, direction \in Sides,
          entry \in {None, 0, 10100, 11300}, position_amt \in 0..Quantity,
          book \in Books, market_ok \in BOOLEAN :
          call = [pc |-> "sltp_input", check |-> check,
                  direction |-> direction, entry |-> entry,
                  position_amt |-> position_amt, book |-> book,
                  market_ok |-> market_ok, last_filled_price |-> entry,
                  market |-> 0, reread |-> FALSE]
    /\ EngineIdle

SpecSlTp == InitSlTp /\ [][SlTpCheck]_vars

\* _place_and_monitor_open_order after its reset: the event cleared, the
\* status OPEN, the filled amount 0; place_open_order is awaited and will
\* answer result_status.
InitHandler ==
    /\ pricing = PricingIdle
    /\ cancel = CancelIdle
    /\ place = PlaceIdle
    /\ status = StatusIdle
    /\ \E result_status \in {"OPEN", "PARTIALLY_FILLED", "FILLED"},
          last_filled_price \in {None, 10200} :
          call = [pc |-> "placing", result_status |-> result_status,
                  order_filled_event |-> FALSE, order_canceled_event |-> FALSE,
                  filled_scheduled |-> FALSE, canceled_scheduled |-> FALSE,
                  posted_in_wait |-> FALSE,
                  current_order_status |-> "OPEN", order_filled_amount |-> 0,
                  last_filled_price |-> last_filled_price,
                  received |-> 0, last |-> NoMessage, terminal |-> FALSE,
                  reported_filled |-> FALSE,
                  ended |-> "none", branch |-> "none"]
    /\ EngineIdle

NextHandler == HandlerMessage \/ LoopCallback \/ PlaceReturns \/ FillWait

SpecHandler == InitHandler /\ [][NextHandler]_vars

\* An engine, its wait_time and max_orders, and two counts of active close
\* orders below max_orders.
InitCooldown ==
    /\ pricing = PricingIdle
    /\ cancel = CancelIdle
    /\ place = PlaceIdle
    /\ status = StatusIdle
    /\ \E engine \in Engines, wait_time \in {30, 60, 120, 450},
          max_orders \in 1..MaxConfigOrders :
          \E more \in 0..(max_orders - 1) :
             \E fewer \in 0..more :
                call = [pc |-> "cooldown_input", engine |-> engine,
                        wait_time |-> wait_time, max_orders |-> max_orders,
                        fewer |-> fewer, more |-> more,
                        cool_fewer |-> None, cool_more |-> None]
    /\ EngineIdle

SpecCooldown == InitCooldown /\ [][CoolDownTimes]_vars

\* The bot as constructed, with at most max_orders close orders resting.
InitBound ==
    /\ pricing = PricingIdle
    /\ cancel = CancelIdle
    /\ place = PlaceIdle
    /\ status = StatusIdle
    /\ \E venue \in 0..MaxOrders :
          call = [pc |-> "cycle", venue |-> venue, n |-> 0,
                  last_close_orders |-> 0, last_open_order_time |-> 0,
                  margin_rests |-> FALSE]
    /\ EngineIdle

NextBound ==
    \/ BoundGetActiveOrders
    \/ BoundCalculateWaitTime
    \/ BoundMeetGridStep
    \/ BoundPlaceOpenOrder
    \/ BoundHandleOrderResult
    \/ BoundAttemptEnd
    \/ BoundCloseOrderFills

SpecBound == InitBound /\ [][NextBound]_vars

(***************************************************************************)
(* The claims                                                              *)
(***************************************************************************)

\* C2: for every book with 0 < bid < ask, with and without the aggressive
\* flag, the price place_open_order and place_close_order submit after the
\* rounding is strictly below the ask for a buy and strictly above the bid
\* for a sell.
C2_NeverCrossesSpread ==
    (pricing.pc \in {"open", "close"} /\ 0 < pricing.bid /\ pricing.bid < pricing.ask)
    => /\ pricing.submitted # None
       /\ pricing.side = "buy" => pricing.submitted < pricing.ask
       /\ pricing.side = "sell" => pricing.submitted > pricing.bid

\* C8: when the cancel response carries no executedQuantity and the
\* order-info query cancel_order then makes answers filled_size f, the
\* result of cancel_order is a success with filled_size f.
C8_CancelRaceInference ==
    (/\ cancel.pc = "done"
     /\ cancel.resp.executed = None
     /\ cancel.queried
     /\ cancel.info \in 0..Quantity)
    => /\ cancel.result.success
       /\ cancel.result.filled_size = cancel.info

\* C8, its case: the query answers a partial fill while the position would
\* suggest the full quantity, and the result carries the partial fill.
C8_PartialFillInferred ==
    /\ cancel.pc = "done"
    /\ cancel.resp.executed = None
    /\ cancel.queried
    /\ cancel.info = 1
    /\ cancel.pos >= Quantity
    /\ cancel.result.success
    /\ cancel.result.filled_size = 1

\* C9: place_open_order submits the post-only order at most max_retries
\* times, however often the venue rejects it.
C9_PlacementsBounded == place.placements <= max_retries

\* C6: in a cycle whose position and close-order sizes differ by more than
\* 2 * quantity the engine logs the error, requests shutdown and starts no
\* open order; in a cycle where they differ by less it logs no error.
C6_MismatchStopsCycle ==
    status.pc \notin {"idle", "input"}
    => IF position_mismatch(status.position_amt, status.active_close_amount,
                            status.quantity)
       THEN /\ status.error_logged
            /\ status.shutdown_requested
            /\ status.pc # "placing"
       ELSE ~status.error_logged

\* An order of the closing side rests at the venue.
CloseOrderRests ==
    \E i \in 1..Len(account.close_orders) : Resting(account.close_orders[i])

\* C1: at the end of every cycle of run there is no position without a
\* resting close order, and no resting close order without a position.
C1_ConsistentAtCycleEnd ==
    run.pc = "cycle_end" => (account.position # 0 <=> CloseOrderRests)

\* C3: on the cancel path of an attempt the close order asked for has the
\* size the opening order had filled when the cancel was sent, and none is
\* asked for when it had filled nothing (quantity 0: no close order).
C3_CloseSizedToFill ==
    run.close_call.caller = "cancel"
    => run.close_call.quantity = hist.filled_at_cancel

\* C4: when the opening order is reported filled, the close order asked for
\* has the size config.quantity and the price take_profit percent beyond the
\* price the opening order filled at.
C4_CloseAtTakeProfit ==
    run.close_call.caller = "filled"
    => /\ run.close_call.quantity = Quantity
       /\ hist.fill_price # None
       /\ run.close_call.price =
              take_profit_price(hist.fill_price, close_order_side(config.direction))

\* Where run stands while place_open_order runs.
OpenOrderPcs == {"open_round", "open_poll"}

\* C5: once shutdown is requested the flag stays set, and run neither
\* enters place_open_order nor has an opening order placed at the venue.
C5_NoOpenAfterShutdown ==
    [][bot.shutdown_requested
       => /\ bot'.shutdown_requested
          /\ run'.pc \notin OpenOrderPcs
          /\ ~account'.open_order.live]_vars

\* C5, its case: the global SL/TP check requested the shutdown (the
\* configuration has no stop price, and run did not raise), the position is
\* still held, and the loop is at its condition again.
C5_ShutdownByGlobalSlTp ==
    /\ bot.shutdown_requested
    /\ config.stop_price = Unset /\ config.pause_price = Unset
    /\ run.pc = "top"
    /\ account.position > 0
    /\ attempts < MaxAttempts

\* C7: when the engine has sent the cancel of the opening order, the
\* filled amount its close-order decision reads is a number.
C7_DefiniteFilledSize ==
    run.close_call.caller = "cancel" => run.order_filled_amount # None

\* C10: run enters place_open_order only in a cycle that cleared no
\* position, or whose re-read after the clearing found none.
C10_NoOpenOnUnreconciled ==
    run.pc \in OpenOrderPcs => hist.clearing # "nonzero"

\* C11: place_open_order submits best ask - tick for a buy and best bid + tick
\* for a sell when not aggressive, and best ask - tick/2 respectively
\* best bid + tick/2 when aggressive.
C11_OpenOrderPrice ==
    (pricing.pc \in {"open", "edgex_open"} /\ pricing.bid > 0 /\ pricing.ask > 0)
    => pricing.submitted =
           IF pricing.side = "buy"
           THEN pricing.ask - (IF pricing.aggressive THEN pricing.tick \div 2
                                                     ELSE pricing.tick)
           ELSE pricing.bid + (IF pricing.aggressive THEN pricing.tick \div 2
                                                     ELSE pricing.tick)

\* C12: for fixed grid_step, take_profit and nearest close price the grid-step
\* gate is monotone in the book price: where it passes at one book it passes
\* at every more favorable book it accepts (lower best ask for buy, higher
\* best bid for sell), and where it rejects it rejects at every less
\* favorable one.
C12_GridStepMonotone ==
    LET favorable == IF call.direction = "buy"
                     THEN call.other_book[2] <= call.book[2]
                     ELSE call.other_book[1] >= call.book[1]
    IN  (call.pc = "grid_done" /\ favorable
            /\ call.answer # "raise" /\ call.other_answer # "raise")
        => /\ call.answer = "pass" => call.other_answer = "pass"
           /\ call.other_answer = "reject" => call.answer = "reject"

C12_RejectedThenPassedLower ==
    /\ call.pc = "grid_done"
    /\ call.direction = "buy"
    /\ Len(call.active_close_orders) = 2
    /\ call.answer = "reject"
    /\ call.other_answer = "pass"
    /\ call.other_book[2] < call.book[2]

\* C13: every execution of run that stops (the flag seen at the top of an
\* iteration, an exception, a cancellation of the task) has called the
\* gateway's disconnect before run is left, and once the flag is set no
\* further iteration starts.
C13_DisconnectBeforeReturn ==
    [][/\ call'.pc \in {"returned", "raised"} => call'.disconnects >= 1
       /\ call.shutdown_requested
             => call'.shutdown_requested /\ call'.pc # "iteration"]_vars

C13_CancelledAndDisconnected ==
    /\ call.pc = "raised"
    /\ call.cause = "cancelled"
    /\ call.iterations > 0
    /\ call.disconnects = 1

\* C14: the gateway connection is released exactly once per run: on every
\* way out of run disconnect is called one time.
C14_DisconnectExactlyOnce ==
    call.pc \in {"returned", "raised"} => call.disconnects = 1

\* C15: a best bid/ask fetch that returns (0,0) is never fatal: the engine
\* skips the step and goes on with the next cycle, and no exception leaves
\* run.  (An exception leaves run only at pc "raised", and the refused book
\* is the only cause of it.)
C15_NoDataNeverFatal == run.pc # "raised"

\* C16: the open-order attempts of one engine follow one another, and each
\* attempt results in at most one close order: no attempt has the venue
\* accept a second close order.
C16_OneCloseOrderPerAttempt == hist.close_placed <= 1

\* C17: every OrderResult a gateway call returns is fully populated: with
\* success true, order id, side, size, price and status are all present; with
\* success false, error_message is present.  Here for cancel_order.
C17_ResultFullyPopulated ==
    cancel.pc = "done"
    => IF cancel.result.success
       THEN /\ cancel.result.order_id # None
            /\ cancel.result.side # None
            /\ cancel.result.size # None
            /\ cancel.result.price # None
            /\ cancel.result.status # None
       ELSE cancel.result.error_message

\* C18: when the polling window of place_open_order ends with zero filled
\* quantity, the limit order is cancelled first, then a market order of the
\* same side and quantity is submitted, and the call returns success with
\* the market order's id, not the limit order's: the limit order rests no
\* more, both requests were made in this order, and the result names the
\* market order.
C18_NoFillCancelThenMarket ==
    (call.pc = "poll_done" /\ call.timed_out /\ call.filled = 0)
    => /\ Len(call.calls) = 2
       /\ call.calls[1] = [op |-> "cancel", order_id |-> "limit"]
       /\ ~call.resting
       /\ call.calls[2] = [op |-> "market",
                           side |-> IF call.direction = "buy" THEN "Bid" ELSE "Ask",
                           quantity |-> Quantity]
       /\ call.result.success
       /\ call.result.order_id = "market"

\* C19: when a poll inside the window reports filled_size >= the quantity,
\* the call returns success with the limit order's id and status FILLED,
\* and issues neither a cancel nor a market order.
C19_FilledInTime ==
    (call.pc = "poll_done" /\ call.filled >= Quantity)
    => /\ call.result = [success |-> TRUE, order_id |-> "limit", status |-> "FILLED"]
       /\ call.calls = <<>>
       /\ ~call.timed_out

C19_FilledOnLaterPoll ==
    /\ call.pc = "poll_done"
    /\ call.filled >= Quantity
    /\ call.polls >= 1
    /\ call.result.order_id = "limit"

\* C20: a decorated query that keeps raising an exception of the retried
\* kind is attempted at most max_attempts times and the call then returns
\* default_return instead of raising; a query that succeeds is called once
\* and its own result is returned.
C20_RetryThenDefault ==
    /\ call.attempts <= call.max_attempts
    /\ (call.pc = "retry_done" /\ call.last = "retried_error")
          => call.attempts = call.max_attempts /\ call.result = call.default_return
    /\ (call.pc = "retry_done" /\ call.last = "return")
          => call.result = "own"
    /\ call.result = "own" => call.pc = "retry_done"
    /\ call.attempts >= 1 => call.pc = "retry_done" \/ call.last = "retried_error"

C20_DefaultAfterThreeAttempts ==
    /\ call.pc = "retry_done"
    /\ call.max_attempts = 3
    /\ call.attempts = 3
    /\ call.last = "retried_error"
    /\ call.result = call.default_return

\* C21: place_close_order called with target price p submits best bid + tick
\* (+ tick/2 if aggressive) when the side is sell and p <= best bid, submits
\* best ask - tick (- tick/2 if aggressive) when the side is buy and
\* p >= best ask, and else submits p, rounded to the tick.
C21_CloseOrderClamp ==
    (pricing.pc = "close" /\ pricing.bid > 0 /\ pricing.ask > 0)
    => pricing.submitted =
           IF pricing.side = "sell" /\ pricing.target <= pricing.bid
           THEN pricing.bid + (IF pricing.aggressive THEN pricing.tick \div 2
                                                     ELSE pricing.tick)
           ELSE IF pricing.side = "buy" /\ pricing.target >= pricing.ask
           THEN pricing.ask - (IF pricing.aggressive THEN pricing.tick \div 2
                                                     ELSE pricing.tick)
           ELSE round_to_tick(pricing.target, pricing.tick)

\* The close prices of the orders the gate was called with.
C22_ClosePrices ==
    {call.active_close_orders[i].price : i \in 1..Len(call.active_close_orders)}

\* C22 as stated: with active close orders the gate passes only if (nearest
\* close price) / (close price of a new order from the current book) is
\* strictly greater than 1 + grid_step/100, in either direction, nearest
\* being the lowest close price for buy and the highest for sell; with no
\* close order it passes.
C22_NearestOverNewClose ==
    (call.pc = "grid_done" /\ call.answer # "raise")
    => (call.answer = "pass"
        <=> \/ call.active_close_orders = <<>>
            \/ /\ call.direction = "buy"
               /\ \E p \in C22_ClosePrices :
                     /\ \A q \in C22_ClosePrices : p <= q
                     /\ p * 100 * 100
                           > call.book[2] * (100 + TakeProfit) * (100 + GridStep)
            \/ /\ call.direction = "sell"
               /\ \E p \in C22_ClosePrices :
                     /\ \A q \in C22_ClosePrices : p >= q
                     /\ p * 100 * 100
                           > call.book[1] * (100 - TakeProfit) * (100 + GridStep))

\* C22, amended: for direction sell the ratio is the other way round, (close
\* price of a new order) / (nearest close price) > 1 + grid_step/100.
C22_GridStepGate ==
    (call.pc = "grid_done" /\ call.answer # "raise")
    => (call.answer = "pass"
        <=> \/ call.active_close_orders = <<>>
            \/ /\ call.direction = "buy"
               /\ \E p \in C22_ClosePrices :
                     /\ \A q \in C22_ClosePrices : p <= q
                     /\ p * 100 * 100
                           > call.book[2] * (100 + TakeProfit) * (100 + GridStep)
            \/ /\ call.direction = "sell"
               /\ \E p \in C22_ClosePrices :
                     /\ \A q \in C22_ClosePrices : p >= q
                     /\ call.book[1] * (100 - TakeProfit) * 100
                           > p * 100 * (100 + GridStep))

C22_SellPassesOnHighest ==
    /\ call.pc = "grid_done"
    /\ call.direction = "sell"
    /\ Len(call.active_close_orders) = 2
    /\ call.active_close_orders[1].price < call.active_close_orders[2].price
    /\ call.answer = "pass"
    /\ call.book[1] * (100 - TakeProfit) * 100
          <= (call.active_close_orders[2].price + TickSize) * 100 * (100 + GridStep)

\* C23: an open order is placed in a cycle only if the cooldown computed for
\* that cycle has elapsed since the last open-order time and the grid-step
\* gate passes.
C23_OpenOnlyAfterCooldown ==
    [][(run.pc = "grid_step" /\ run'.pc = "open_round")
          => hist.cooldown = "elapsed"]_vars

\* C24: whenever the engine issues a market close (the per-trade SL/TP
\* checks, the position-clearing step, the global SL/TP check), the
\* remembered fill price is cleared with it.
C24_FilledPriceClearedOnMarketClose ==
    [][(/\ run.pc \in {"first_sltp", "clear", "second_sltp", "global_sltp"}
        /\ run'.pc # run.pc
        /\ account'.position # account.position)
          => bot'.last_filled_price = None]_vars

\* C25: in a check with a nonzero position, a remembered fill price and a
\* book that has both prices, the engine issues a market close of the whole position, clears the
\* remembered fill price and reads the position again if and only if the
\* profit on the mid price is at or below -stop_loss_threshold% or at or
\* above take_profit_threshold%.
C25_PerTradeSlTp ==
    (/\ call.pc = "sltp_done"
     /\ call.position_amt > 0
     /\ call.entry # None /\ call.entry > 0
     /\ call.book[1] > 0 /\ call.book[2] > 0)
    => ((/\ call.market = call.position_amt
         /\ call.last_filled_price = None
         /\ call.reread)
        <=> (\/ loss_reached(call.entry, call.book, call.direction,
                             stop_loss_threshold)
             \/ profit_reached(call.entry, call.book, call.direction,
                               take_profit_threshold)))

\* C26: after _check_price_condition read a book, a stop_price that is set
\* and reached by it has shutdown requested and the cycle go on to no open
\* order; a pause_price that is set and reached (the stop_price not) has
\* the cycle end with no open order and the loop keep running; with both
\* prices unset no book is read and neither happens.
C26_StopAndPausePrice ==
    /\ (config.stop_price = Unset /\ config.pause_price = Unset)
           => hist.book = <<>>
    /\ hist.book # <<>>
           => /\ price_reached(hist.book, config.direction, config.stop_price)
                  => (bot.shutdown_requested /\ run.pc \in {"cycle_end", "raised"})
              /\ (/\ price_reached(hist.book, config.direction, config.pause_price)
                  /\ ~price_reached(hist.book, config.direction, config.stop_price))
                  => (~bot.shutdown_requested /\ run.pc = "cycle_end")

\* C27: when the fill wait expires without a fill signal, the step the
\* engine takes is a query of the order's status: it leaves the order at
\* the venue as it is and the decision to what the query answers.
C27_TimeoutQueriesStatus ==
    [][(/\ run.pc = "wait_fill"
        /\ ~bot.order_filled_event
        /\ run'.pc # run.pc
        /\ ~ResultNamesCloseOrder)
          => account'.open_order = account.open_order]_vars

\* C28: the fill wait of an accepted open order ends early exactly when a
\* terminal notification (FILLED, CANCELED, REJECTED, EXPIRED) for that
\* order has arrived, and at the timeout when none has.
C28_WaitEndsOnTerminal ==
    (call.pc = "handle_result" /\ call.ended \in {"event", "timeout"})
    => (call.ended = "event" <=> call.terminal)

\* C29: a run of the notification handler changes the state the main loop
\* reads (the two signals, current_order_status, order_filled_amount,
\* last_filled_price) in no way but by handing a callback to the loop.
C29_HandlerOnlyPosts ==
    [][call'.received # call.received
          => /\ call'.order_filled_event = call.order_filled_event
             /\ call'.order_canceled_event = call.order_canceled_event
             /\ call'.current_order_status = call.current_order_status
             /\ call'.order_filled_amount = call.order_filled_amount
             /\ call'.last_filled_price = call.last_filled_price]_vars

\* C30: a task cancellation that arrives while the placement of an open
\* order is in flight does not leave the order live at the exchange with
\* neither a cancel nor a close order issued for it.
C30_CancelledPlacementResolved ==
    (call.pc = "poll_done" /\ call.interrupted)
    => (~call.resting \/ call.calls # <<>>)

\* The close order _handle_order_result asked for came back failed.
CloseOrderFailed ==
    /\ run.close_call.quantity > 0
    /\ run.close_call.caller \in {"filled", "cancel", "margin_filled", "margin_cancel"}
    /\ ~run.close_call.success

\* C31: when place_close_order returns a failed result to
\* _handle_order_result, the attempt completes (nothing is raised, no
\* shutdown is requested), no further close order is placed in that
\* attempt, and the run loop proceeds to its next cycle.
C31_CloseFailureEndsAttempt ==
    [][/\ (/\ run.pc \in {"close_round", "close_poll"}
           /\ run'.pc \notin {"close_round", "close_poll"}
           /\ run.close_call.caller # "margin"
           /\ ~run'.close_call.success)
          => (/\ run'.pc = "attempt_end"
              /\ bot'.shutdown_requested = bot.shutdown_requested)
       /\ (run.pc = "attempt_end" /\ CloseOrderFailed /\ run'.pc # run.pc)
          => (/\ run'.pc = "cycle_end"
              /\ Len(account'.close_orders) <= Len(account.close_orders)
              /\ bot'.shutdown_requested = bot.shutdown_requested)
       /\ (run.pc = "cycle_end" /\ run'.pc # run.pc) => run'.pc = "top"]_vars

C31_FailedAfterPartialFill ==
    /\ run.pc = "attempt_end"
    /\ CloseOrderFailed
    /\ run.close_call.caller = "cancel"
    /\ run.close_call.quantity < Quantity

\* C32: an exception raised inside the main loop of run goes to the handler
\* at the top level of run, which shuts down gracefully and raises it again.
C32_ExceptionReachesTopLevel ==
    [][(/\ call.pc \in {"iteration", "placing"}
        /\ call'.cause \in {"exception", "caught"})
          => call'.pc = "except"]_vars

\* C33: for fixed wait_time and max_orders the cool-down time is
\* non-decreasing in the number of active close orders, and never below
\* the time of its lowest tier.
C33_CooldownMonotone ==
    call.pc = "cooldown_done"
    => /\ call.cool_fewer <= call.cool_more
       /\ call.cool_more >= cool_down_time(call.engine, 0, call.max_orders,
                                           call.wait_time)

\* C34: the engine takes the filled branch of an open-order attempt only if
\* the order placed in that attempt was itself reported FILLED, by the
\* result of place_open_order or by a notification of that order.
C34_FilledBranchOnlyOnOwnFill ==
    (call.pc = "handle_result" /\ call.branch = "filled")
    => (call.result_status = "FILLED" \/ call.reported_filled)

\* C35: one call of place_open_order opens no more than the requested
\* quantity: what the limit order filled at the venue and what an accepted
\* market replacement order takes together stay within quantity.
C35_NoOverfill ==
    call.pc = "poll_done"
    => call.at_venue
          + (IF call.market = "accepted" THEN Quantity ELSE 0)
       <= Quantity

\* C36: while an open order of the engine rests at the exchange, no open
\* order it placed in an earlier attempt rests there too: each of them was
\* filled or cancelled before the new one was placed.
C36_EarlierOrdersTerminal ==
    account.open_order.live => ~account.abandoned

\* C37: a FILLED notification for the open order of the attempt, handled at
\* any moment after the fill signal was cleared, is observed: the attempt
\* takes the filled branch and issues no cancel.
C37_NoLostWakeUp ==
    (call.pc = "handle_result" /\ call.reported_filled)
    => call.branch = "filled"

\* C38: starting with at most max_orders active close orders, all of them
\* created by this engine, an open order is placed only in a cycle that
\* counted fewer than max_orders active close orders, and the close orders
\* that rest never number more than max_orders.
C38_MaxOrdersBound ==
    /\ call.venue <= MaxOrders
    /\ call.pc = "place_open" => call.n < MaxOrders

C40_ForeignOrCloseIgnored ==
    [][(/\ call'.received = call.received + 1
        /\ \/ call'.last.contract_id = "foreign"
           \/ call'.last.order_type = "CLOSE")
       => /\ call'.filled_scheduled = call.filled_scheduled
          /\ call'.canceled_scheduled = call.canceled_scheduled
          /\ call'.order_filled_event = call.order_filled_event
          /\ call'.order_canceled_event = call.order_canceled_event
          /\ call'.current_order_status = call.current_order_status
          /\ call'.order_filled_amount = call.order_filled_amount
          /\ call'.last_filled_price = call.last_filled_price]_vars

\* The first notification handled is FILLED for a CLOSE order of the
\* configured contract, with a price: the tracking state is as the attempt
\* reset it.
C40_CloseFillHandled ==
    /\ call.pc \in {"placing", "fill_wait"}
    /\ call.received = 1
    /\ call.last.contract_id = "own"
    /\ call.last.order_type = "CLOSE"
    /\ call.last.status = "FILLED"
    /\ call.last.price = 10000
    /\ call.current_order_status = "OPEN"
    /\ call.order_filled_amount = 0
    /\ call.last_filled_price = 10200
    /\ ~call.filled_scheduled

====
